---- MODULE Spec2Model ----
(***************************************************************************)
(* A model of slafling (src/src/*.rs): configuration and credential        *)
(* resolution, size-string parsing and formatting, and the send path.      *)
(*                                                                         *)
(* Strings whose characters the code inspects (size strings, standard      *)
(* input, environment values that are lower-cased or trimmed) are          *)
(* sequences of one-character strings; strings the code only compares or   *)
(* tests for emptiness (channel names, profile names) are TLA+ strings.    *)
(***************************************************************************)
EXTENDS Integers, Sequences, FiniteSets, TLC

VARIABLES
    size,        \* the size-string computation in progress (parse_file_size / format_size)
    macos,       \* cfg!(target_os = "macos") of the build
    env,         \* the process environment: the SLAFLING_* variables
    cfgfile,     \* the configuration file as toml::from_str reads it (None: unreadable)
    filestore,   \* the token files, by file name
    keychain,    \* the Keychain entries of service "slafling", by account
    cli,         \* the parsed command line (cli::Cli)
    stdin,       \* standard input: terminal or not, its content, how often it was read
    stdout_tty,  \* std::io::stdout().is_terminal()
    pc,          \* where the invocation stands
    resolved,    \* the ResolvedConfig (send) or the token, types and format (search)
    payload,     \* (text, file) of run_send_with_resolved
    result,      \* how the invocation ended, once it has
    calls,       \* the remote calls made so far, in order
    events,      \* the resolvers and loaders called so far, in order
    search       \* the locals of search_channels: results and cursor

vars == <<size, macos, env, cfgfile, filestore, keychain, cli, stdin, stdout_tty,
          pc, resolved, payload, result, calls, events, search>>

progVars == <<macos, env, cfgfile, filestore, keychain, cli, stdin, stdout_tty,
              pc, resolved, payload, result, calls, events, search>>

-----------------------------------------------------------------------------
(* Option<T>: None is the empty sequence, Some(v) the one-element one.     *)

None == <<>>
Some(v) == <<v>>
IsSome(o) == o # <<>>
Unwrap(o) == o[1]

\* every sequence over S of length at most n
SeqsUpTo(S, n) == UNION { [1..k -> S] : k \in 0..n }

-----------------------------------------------------------------------------
(* Characters and the std string helpers the code calls.                   *)

Lowers == <<"a","b","c","d","e","f","g","h","i","j","k","l","m",
            "n","o","p","q","r","s","t","u","v","w","x","y","z">>
Uppers == <<"A","B","C","D","E","F","G","H","I","J","K","L","M",
            "N","O","P","Q","R","S","T","U","V","W","X","Y","Z">>
Digits == <<"0","1","2","3","4","5","6","7","8","9">>

Range(f) == { f[i] : i \in DOMAIN f }

\* char::is_ascii_alphabetic
IsAsciiAlphabetic(c) == c \in Range(Lowers) \cup Range(Uppers)

\* char::is_whitespace, on the characters the model uses
IsWhitespace(c) == c \in {" ", "\t", "\n", "\r"}

IsDigit(c) == c \in Range(Digits)

DigitVal(c) == (CHOOSE i \in DOMAIN Digits : Digits[i] = c) - 1

DigitChar(v) == Digits[v + 1]

\* char::to_ascii_uppercase
ToUpperChar(c) ==
    IF c \in Range(Lowers) THEN Uppers[CHOOSE i \in DOMAIN Lowers : Lowers[i] = c] ELSE c

\* char::to_lowercase, on ASCII
ToLowerChar(c) ==
    IF c \in Range(Uppers) THEN Lowers[CHOOSE i \in DOMAIN Uppers : Uppers[i] = c] ELSE c

\* str::to_ascii_uppercase
ToAsciiUppercase(s) == [i \in DOMAIN s |-> ToUpperChar(s[i])]

\* str::to_lowercase
ToLowercase(s) == [i \in DOMAIN s |-> ToLowerChar(s[i])]

\* mutation of TrimEnd: one trailing newline is dropped and nothing else
TrimEnd_OneNewline(s) ==
    IF s # <<>> /\ s[Len(s)] = "\n" THEN SubSeq(s, 1, Len(s) - 1) ELSE s

\* str::trim_end: drop every trailing whitespace character
RECURSIVE TrimEnd(_)
TrimEnd(s) ==
    IF s = <<>> THEN s
    ELSE IF IsWhitespace(s[Len(s)]) THEN TrimEnd(SubSeq(s, 1, Len(s) - 1))
    ELSE s

\* str::trim_start
RECURSIVE TrimStart(_)
TrimStart(s) ==
    IF s = <<>> THEN s
    ELSE IF IsWhitespace(s[1]) THEN TrimStart(Tail(s))
    ELSE s

\* str::trim
Trim(s) == TrimStart(TrimEnd(s))

\* str::find(|c| c.is_ascii_alphabetic()): index of the first letter, 0 for None
FindAlphabetic(s) ==
    IF \E i \in DOMAIN s : IsAsciiAlphabetic(s[i])
    THEN CHOOSE i \in DOMAIN s :
            /\ IsAsciiAlphabetic(s[i])
            /\ \A j \in 1..(i - 1) : ~IsAsciiAlphabetic(s[j])
    ELSE 0

RECURSIVE Pow10(_)
Pow10(d) == IF d = 0 THEN 1 ELSE 10 * Pow10(d - 1)

\* the digits of s read as a decimal integer (s holds digits only)
RECURSIVE DigitsValue(_)
DigitsValue(s) ==
    IF s = <<>> THEN 0
    ELSE 10 * DigitsValue(SubSeq(s, 1, Len(s) - 1)) + DigitVal(s[Len(s)])

\* u64 to_string / {} formatting of an integer
RECURSIVE IntToString(_)
IntToString(n) ==
    IF n < 10 THEN <<DigitChar(n)>>
    ELSE Append(IntToString(n \div 10), DigitChar(n % 10))

-----------------------------------------------------------------------------
(* Size strings: src/src/config.rs, parse_file_size and format_size.       *)

KB == 1024
MB == 1048576
GB == 1073741824

\* DEFAULT_MAX_FILE_SIZE = 100 * MB
DEFAULT_MAX_FILE_SIZE == 100 * MB

\* The largest byte count the model computes with: TLC's integers are 32-bit,
\* the code's are u64, so inputs are kept below this and u64 saturation
\* (above 1.8e19) is outside the model.
MaxBytes == GB + (GB - 1)

\* <f64 as FromStr>::from_str on a string without letters (parse_file_size
\* hands it the text before the first letter, so exponents, "inf" and "nan"
\* cannot occur): [sign] digits [. digits] with at least one digit.
\* The value is (IF neg THEN -1 ELSE 1) * mant / 10^dec.
ParseF64(s) ==
    LET signed == s # <<>> /\ s[1] \in {"-", "+"}
        body   == IF signed THEN Tail(s) ELSE s
        dots   == { i \in DOMAIN body : body[i] = "." }
        dot    == IF dots = {} THEN 0 ELSE CHOOSE i \in dots : TRUE
        ip     == IF dot = 0 THEN body ELSE SubSeq(body, 1, dot - 1)
        fp     == IF dot = 0 THEN <<>> ELSE SubSeq(body, dot + 1, Len(body))
        wellFormed ==
            /\ Cardinality(dots) <= 1
            /\ \A i \in DOMAIN body : IsDigit(body[i]) \/ body[i] = "."
            /\ Len(ip) + Len(fp) >= 1
    IN  IF wellFormed
        THEN [ok |-> TRUE, neg |-> signed /\ s[1] = "-",
              mant |-> DigitsValue(ip \o fp), dec |-> Len(fp)]
        ELSE [ok |-> FALSE, neg |-> FALSE, mant |-> 0, dec |-> 0]

\* mutation of UnitMultiplier: the one-letter units K, M, G are not recognised
UnitMultiplierLongOnly(unit) ==
    IF unit = <<>> \/ unit = <<"B">> THEN 1
    ELSE IF unit = <<"K","B">> THEN KB
    ELSE IF unit = <<"M","B">> THEN MB
    ELSE IF unit = <<"G","B">> THEN GB
    ELSE 0

\* the match on the upper-cased unit: 0 stands for the bail! arm
UnitMultiplier(unit) ==
    IF unit = <<>> \/ unit = <<"B">> THEN 1
    ELSE IF unit = <<"K","B">> \/ unit = <<"K">> THEN KB
    ELSE IF unit = <<"M","B">> \/ unit = <<"M">> THEN MB
    ELSE IF unit = <<"G","B">> \/ unit = <<"G">> THEN GB
    ELSE 0

\* floor(a * b1 * b2 / c) without leaving 32 bits (b1 * b2 is the multiplier)
MulDivFloor(a, b1, b2, c) ==
    LET q == (a * b1) \div c
        r == (a * b1) % c
    IN  q * b2 + (r * b2) \div c

\* (num * multiplier as f64) as u64: the product is exact in binary floating
\* point up to the rounding of num itself (the multiplier is a power of two),
\* which never moves it across an integer for the digit counts of the model;
\* the cast truncates toward zero and saturates, so a negative product is 0.
ScaleToU64(num, multiplier) ==
    IF num.neg THEN 0
    ELSE IF multiplier = GB THEN MulDivFloor(num.mant, 32768, 32768, Pow10(num.dec))
    ELSE IF multiplier = MB THEN MulDivFloor(num.mant, 1024, 1024, Pow10(num.dec))
    ELSE MulDivFloor(num.mant, multiplier, 1, Pow10(num.dec))

\* the split at the first letter: (num_part, unit)
SplitSize(s0) ==
    LET s == Trim(s0)
        i == FindAlphabetic(s)
    IN  IF i = 0 THEN [num_part |-> s, unit |-> <<>>]
        ELSE [num_part |-> Trim(SubSeq(s, 1, i - 1)),
              unit |-> ToAsciiUppercase(Trim(SubSeq(s, i, Len(s))))]

Ok(v) == [ok |-> TRUE, val |-> v, err |-> "none"]
Err(e) == [ok |-> FALSE, val |-> 0, err |-> e]

\* parse_file_size: the number is parsed first (its error wins), then the unit
parse_file_size(s0) ==
    LET parts == SplitSize(s0)
        num   == ParseF64(parts.num_part)
        mult  == UnitMultiplier(parts.unit)
    IN  IF ~num.ok THEN Err("invalid number in file size")
        ELSE IF mult = 0 THEN Err("unknown file size unit")
        ELSE Ok(ScaleToU64(num, mult))

\* mutation of RoundTenths: the tenths are truncated instead of rounded
RoundTenthsTruncating(bytes, unit) ==
    LET r == bytes % unit
        s == unit \div 1024
    IN  10 * (bytes \div unit) + (10 * (r \div s) + (10 * (r % s)) \div s) \div 1024

\* {:.1} of bytes / unit: the quotient is exact in f64 (the unit is a power of
\* two), and Rust rounds the exact value to one decimal, ties to even.
\* Returns the number of tenths.
RoundTenths(bytes, unit) ==
    LET q  == bytes \div unit
        r  == bytes % unit
        s  == unit \div 1024
        a  == r \div s
        b  == r % s
        x  == 10 * a + (10 * b) \div s      \* floor(10 * r / s)
        e  == (10 * b) % s
        t0 == x \div 1024
        y  == x % 1024
        t  == 10 * q + t0
        up == \/ y > 512
              \/ y = 512 /\ e > 0
              \/ y = 512 /\ e = 0 /\ t % 2 = 1
    IN  IF up THEN t + 1 ELSE t

FormatTenths(t, unit) ==
    IntToString(t \div 10) \o <<".", DigitChar(t % 10)>> \o unit

\* format_size
format_size(bytes) ==
    IF bytes >= GB THEN FormatTenths(RoundTenths(bytes, GB), <<"G","B">>)
    ELSE IF bytes >= MB THEN FormatTenths(RoundTenths(bytes, MB), <<"M","B">>)
    ELSE IF bytes >= KB THEN FormatTenths(RoundTenths(bytes, KB), <<"K","B">>)
    ELSE IntToString(bytes) \o <<"B">>

\* resolve, `match max_file_size_str`: an absent size is the default ceiling
resolve_max_file_size(max_file_size_str) ==
    IF IsSome(max_file_size_str) THEN parse_file_size(Unwrap(max_file_size_str))
    ELSE Ok(DEFAULT_MAX_FILE_SIZE)

-----------------------------------------------------------------------------
(* Settings resolution: src/src/config.rs.                                 *)

S_file == <<"f","i","l","e">>
S_keychain == <<"k","e","y","c","h","a","i","n">>
S_table == <<"t","a","b","l","e">>
S_tsv == <<"t","s","v">>
S_json == <<"j","s","o","n">>
S_public_channel == <<"p","u","b","l","i","c","_","c","h","a","n","n","e","l">>
S_private_channel == <<"p","r","i","v","a","t","e","_","c","h","a","n","n","e","l">>
S_im == <<"i","m">>
S_mpim == <<"m","p","i","m">>

VALID_OUTPUT_VALUES == {S_table, S_tsv, S_json}
VALID_SEARCH_TYPES == {S_public_channel, S_private_channel, S_im, S_mpim}
VALID_TOKEN_STORE_VALUES == {S_keychain, S_file}

\* Vec<String>::join(",")
RECURSIVE Join(_)
Join(v) ==
    IF v = <<>> THEN <<>>
    ELSE IF Len(v) = 1 THEN v[1]
    ELSE v[1] \o <<",">> \o Join(Tail(v))

\* default_token_store
default_token_store == IF macos THEN S_keychain ELSE S_file

\* validate_section_values: the first invalid value is the error, with its section
validate_section_values(section, output, search_types) ==
    IF IsSome(output) /\ ToLowercase(Unwrap(output)) \notin VALID_OUTPUT_VALUES
    THEN [ok |-> FALSE, val |-> 0, err |-> "invalid output", section |-> section]
    ELSE IF /\ IsSome(search_types)
            /\ \E i \in DOMAIN Unwrap(search_types) :
                    ToLowercase(Unwrap(search_types)[i]) \notin VALID_SEARCH_TYPES
    THEN [ok |-> FALSE, val |-> 0, err |-> "invalid search_types", section |-> section]
    ELSE [ok |-> TRUE, val |-> 0, err |-> "none", section |-> section]

\* mutation of validate_config: only the default section is validated
validate_config_DefaultOnly(config) ==
    LET d == validate_section_values("default", config.default.output,
                                     config.default.search_types)
        ts == config.default.token_store
    IN  IF ~d.ok THEN {d}
        ELSE IF IsSome(ts) /\ ToLowercase(Unwrap(ts)) \notin VALID_TOKEN_STORE_VALUES
        THEN {[ok |-> FALSE, val |-> 0, err |-> "invalid token_store", section |-> "default"]}
        ELSE IF IsSome(ts) /\ ToLowercase(Unwrap(ts)) = S_keychain /\ ~macos
        THEN {[ok |-> FALSE, val |-> 0,
               err |-> "token_store 'keychain' is only supported on macOS",
               section |-> "default"]}
        ELSE {d}

\* validate_config: the default section, its token_store, then every profile.
\* config.profiles is a HashMap: which invalid profile its iteration meets first
\* is not determined, so the outcomes are a set (of one element unless several
\* profiles are invalid)
validate_config(config) ==
    LET d == validate_section_values("default", config.default.output,
                                     config.default.search_types)
        ts == config.default.token_store
        bad == { n \in DOMAIN config.profiles :
                    ~validate_section_values(n, config.profiles[n].output,
                                             config.profiles[n].search_types).ok }
    IN  IF ~d.ok THEN {d}
        ELSE IF IsSome(ts) /\ ToLowercase(Unwrap(ts)) \notin VALID_TOKEN_STORE_VALUES
        THEN {[ok |-> FALSE, val |-> 0, err |-> "invalid token_store", section |-> "default"]}
        ELSE IF IsSome(ts) /\ ToLowercase(Unwrap(ts)) = S_keychain /\ ~macos
        THEN {[ok |-> FALSE, val |-> 0,
               err |-> "token_store 'keychain' is only supported on macOS",
               section |-> "default"]}
        ELSE IF bad # {}
        THEN { [validate_section_values(n, config.profiles[n].output,
                                        config.profiles[n].search_types)
                    EXCEPT !.section = "profiles." \o n] : n \in bad }
        ELSE {d}

\* load_config: read and parse the file, then validate it; every outcome it can
\* have (the section of a rejected value is kept with the error)
load_config_outcomes ==
    IF cfgfile = None
    THEN {[ok |-> FALSE, val |-> 0, err |-> "failed to read or parse config",
           section |-> ""]}
    ELSE { IF v.ok THEN [ok |-> TRUE, val |-> Unwrap(cfgfile), err |-> "none", section |-> ""]
           ELSE v : v \in validate_config(Unwrap(cfgfile)) }

\* load_config where its outcome is determined: whether it is Ok, and the
\* configuration it returns, are the same for every iteration order
load_config == CHOOSE r \in load_config_outcomes : TRUE

\* token.rs validate_profile_name, on the names of the model
BadProfileNames == {"", "..", "a/b"}
validate_profile_name(name) == name \notin BadProfileNames

\* mutation of account_name: every profile is kept under the default key
account_name_AlwaysDefault(profile) == "default"

\* token.rs profile_path / keychain.rs account_name: the key of a profile
account_name(profile) == IF IsSome(profile) THEN Unwrap(profile) ELSE "default"

\* mutation of token_get_token: the content of the file is returned as it is
token_get_token_Untrimmed(profile) ==
    LET filename == account_name(profile)
    IN  IF ~validate_profile_name(filename) THEN Err("invalid profile name")
        ELSE IF filename \notin DOMAIN filestore \/ filestore[filename] = None
        THEN Ok(None)
        ELSE Ok(filestore[filename])

\* token.rs get_token: read_token(token_path(profile))
token_get_token(profile) ==
    LET filename == account_name(profile)
    IN  IF ~validate_profile_name(filename) THEN Err("invalid profile name")
        ELSE IF filename \notin DOMAIN filestore \/ filestore[filename] = None
        THEN Ok(None)
        ELSE LET token == Trim(Unwrap(filestore[filename]))
             IN  IF token = <<>> THEN Ok(None) ELSE Ok(Some(token))

\* token.rs set_token: write_token(token_path(profile), token); the files after it
token_set_token(profile, token) ==
    LET filename == account_name(profile)
    IN  IF ~validate_profile_name(filename) THEN Err("invalid profile name")
        ELSE Ok([n \in DOMAIN filestore \cup {filename} |->
                    IF n = filename THEN Some(token) ELSE filestore[n]])

\* mutation of token_delete_token: a file that is not there is an error
token_delete_token_MissingIsError(profile) ==
    LET filename == account_name(profile)
    IN  IF ~validate_profile_name(filename) THEN Err("invalid profile name")
        ELSE IF filename \notin DOMAIN filestore THEN Err("failed to delete token file")
        ELSE Ok([n \in DOMAIN filestore \ {filename} |-> filestore[n]])

\* token.rs delete_token: remove_token(token_path(profile)), NotFound is Ok; the
\* files after it
token_delete_token(profile) ==
    LET filename == account_name(profile)
    IN  IF ~validate_profile_name(filename) THEN Err("invalid profile name")
        ELSE Ok([n \in DOMAIN filestore \ {filename} |-> filestore[n]])

\* keychain.rs get_token: the entry on macOS, always None elsewhere
keychain_get_token(profile) ==
    IF ~macos THEN Ok(None)
    ELSE IF account_name(profile) \notin DOMAIN keychain THEN Ok(None)
    ELSE Ok(keychain[account_name(profile)])

\* mutation of resolve_token: the store is asked before the environment
resolve_token_StoreFirst(token_store, profile_name) ==
    LET stored == IF token_store = S_keychain THEN keychain_get_token(profile_name)
                  ELSE token_get_token(profile_name)
    IN  IF token_store \notin {S_keychain, S_file} THEN Err("invalid token_store")
        ELSE IF ~stored.ok THEN stored
        ELSE IF IsSome(stored.val) THEN Ok(Unwrap(stored.val))
        ELSE IF IsSome(env.TOKEN) /\ Unwrap(env.TOKEN) # <<>> THEN Ok(Unwrap(env.TOKEN))
        ELSE Err("token is not configured")

\* resolve_token: 1) SLAFLING_TOKEN when not empty  2) the token_store backend
resolve_token(token_store, profile_name) ==
    IF IsSome(env.TOKEN) /\ Unwrap(env.TOKEN) # <<>> THEN Ok(Unwrap(env.TOKEN))
    ELSE IF token_store \notin {S_keychain, S_file} THEN Err("invalid token_store")
    ELSE LET stored == IF token_store = S_keychain THEN keychain_get_token(profile_name)
                       ELSE token_get_token(profile_name)
         IN  IF ~stored.ok THEN stored
             ELSE IF IsSome(stored.val) THEN Ok(Unwrap(stored.val))
             ELSE Err("token is not configured")

\* resolve_token_store
resolve_token_store(config) ==
    ToLowercase(IF IsSome(config.default.token_store)
                THEN Unwrap(config.default.token_store)
                ELSE default_token_store)

\* mutation of Layer: the default's value when present
Layer_DefaultFirst(default_value, profile_value) ==
    IF IsSome(default_value) THEN default_value ELSE profile_value

\* resolve, the layering of one field: the profile's value when present
Layer(default_value, profile_value) ==
    IF IsSome(profile_value) THEN profile_value ELSE default_value

\* mutation of resolve: SLAFLING_CHANNEL, when set, replaces the channel of the file
resolve_EnvChannel(config, profile_name) ==
    LET token == resolve_token(resolve_token_store(config), profile_name)
        found == IsSome(profile_name) => Unwrap(profile_name) \in DOMAIN config.profiles
        layered == IsSome(profile_name) /\ found
        profile == config.profiles[Unwrap(profile_name)]
        channel == IF IsSome(env.CHANNEL) THEN env.CHANNEL
                   ELSE IF layered THEN Layer(config.default.channel, profile.channel)
                   ELSE config.default.channel
        max_file_size_str ==
            IF layered THEN Layer(config.default.max_file_size, profile.max_file_size)
            ELSE config.default.max_file_size
        confirm0 == IF IsSome(config.default.confirm) THEN Unwrap(config.default.confirm)
                    ELSE FALSE
        confirm == IF layered /\ IsSome(profile.confirm) THEN Unwrap(profile.confirm)
                   ELSE confirm0
        max_file_size == resolve_max_file_size(max_file_size_str)
    IN  IF ~token.ok THEN token
        ELSE IF ~found THEN Err("profile not found in config")
        ELSE IF ~(IsSome(channel) /\ Unwrap(channel) # "") THEN Err("channel is not configured")
        ELSE IF ~max_file_size.ok THEN max_file_size
        ELSE Ok([token |-> token.val, channel |-> Unwrap(channel),
                 max_file_size |-> max_file_size.val, confirm |-> confirm])

\* resolve
resolve(config, profile_name) ==
    LET token == resolve_token(resolve_token_store(config), profile_name)
        found == IsSome(profile_name) => Unwrap(profile_name) \in DOMAIN config.profiles
        layered == IsSome(profile_name) /\ found
        profile == config.profiles[Unwrap(profile_name)]
        channel == IF layered THEN Layer(config.default.channel, profile.channel)
                   ELSE config.default.channel
        max_file_size_str ==
            IF layered THEN Layer(config.default.max_file_size, profile.max_file_size)
            ELSE config.default.max_file_size
        confirm0 == IF IsSome(config.default.confirm) THEN Unwrap(config.default.confirm)
                    ELSE FALSE
        confirm == IF layered /\ IsSome(profile.confirm) THEN Unwrap(profile.confirm)
                   ELSE confirm0
        max_file_size == resolve_max_file_size(max_file_size_str)
    IN  IF ~token.ok THEN token
        ELSE IF ~found THEN Err("profile not found in config")
        ELSE IF ~(IsSome(channel) /\ Unwrap(channel) # "") THEN Err("channel is not configured")
        ELSE IF ~max_file_size.ok THEN max_file_size
        ELSE Ok([token |-> token.val, channel |-> Unwrap(channel),
                 max_file_size |-> max_file_size.val, confirm |-> confirm])

\* resolve_search_types: a profile that is not configured is passed over
resolve_search_types(config, profile_name) ==
    LET st == IF /\ IsSome(profile_name)
                 /\ Unwrap(profile_name) \in DOMAIN config.profiles
                 /\ IsSome(config.profiles[Unwrap(profile_name)].search_types)
              THEN config.profiles[Unwrap(profile_name)].search_types
              ELSE config.default.search_types
    IN  IF IsSome(st) THEN Some(Join(Unwrap(st))) ELSE None

\* mutation of resolve_output: a SLAFLING_OUTPUT that names no format is passed over
resolve_output_InvalidEnvSkipped(config, profile_name) ==
    IF IsSome(env.OUTPUT) /\ ToLowercase(Unwrap(env.OUTPUT)) \in VALID_OUTPUT_VALUES
    THEN env.OUTPUT
    ELSE IF /\ IsSome(profile_name)
            /\ Unwrap(profile_name) \in DOMAIN config.profiles
            /\ IsSome(config.profiles[Unwrap(profile_name)].output)
    THEN config.profiles[Unwrap(profile_name)].output
    ELSE config.default.output

\* resolve_output: SLAFLING_OUTPUT when set, else profile over default
resolve_output(config, profile_name) ==
    IF IsSome(env.OUTPUT) THEN env.OUTPUT
    ELSE IF /\ IsSome(profile_name)
            /\ Unwrap(profile_name) \in DOMAIN config.profiles
            /\ IsSome(config.profiles[Unwrap(profile_name)].output)
    THEN config.profiles[Unwrap(profile_name)].output
    ELSE config.default.output

\* mutation of is_truthy: the value is compared as written
is_truthy_CaseSensitive(s) == s \in {<<"1">>, <<"t","r","u","e">>, <<"y","e","s">>}

\* is_truthy
is_truthy(s) == ToLowercase(s) \in {<<"1">>, <<"t","r","u","e">>, <<"y","e","s">>}

\* is_headless_env
is_headless_env == IsSome(env.HEADLESS) /\ is_truthy(Unwrap(env.HEADLESS))

\* mutation of NonEmptyVar: an empty value counts as set
NonEmptyVar_KeepEmpty(v) == v

\* std::env::var(..).ok().filter(|s| !s.is_empty()), for a variable read as text
NonEmptyVar(v) == IF IsSome(v) /\ Unwrap(v) # <<>> THEN v ELSE None

\* resolve_token_from_env
resolve_token_from_env ==
    IF IsSome(NonEmptyVar(env.TOKEN)) THEN Ok(Unwrap(env.TOKEN))
    ELSE Err("in headless mode, SLAFLING_TOKEN must be set")

\* resolve_from_env
resolve_from_env ==
    LET token == resolve_token_from_env
        channel == IF IsSome(env.CHANNEL) /\ Unwrap(env.CHANNEL) # "" THEN env.CHANNEL
                   ELSE None
        max_str == NonEmptyVar(env.MAX_FILE_SIZE)
        max_file_size == resolve_max_file_size(max_str)
        confirm_var == NonEmptyVar(env.CONFIRM)
        confirm == IF IsSome(confirm_var) THEN is_truthy(Unwrap(confirm_var)) ELSE FALSE
    IN  IF ~token.ok THEN token
        ELSE IF ~IsSome(channel) THEN Err("in headless mode, SLAFLING_CHANNEL must be set")
        ELSE IF ~max_file_size.ok
        THEN Err("in headless mode, invalid SLAFLING_MAX_FILE_SIZE")
        ELSE Ok([token |-> token.val, channel |-> Unwrap(channel),
                 max_file_size |-> max_file_size.val, confirm |-> confirm])

\* resolve_search_types_from_env
resolve_search_types_from_env == NonEmptyVar(env.SEARCH_TYPES)

\* str::split(','): the pieces of s between commas
RECURSIVE SplitComma(_)
SplitComma(s) ==
    IF \A i \in DOMAIN s : s[i] # "," THEN <<s>>
    ELSE LET i == CHOOSE k \in DOMAIN s : s[k] = "," /\ \A j \in 1..(k - 1) : s[j] # ","
         IN  <<SubSeq(s, 1, i - 1)>> \o SplitComma(SubSeq(s, i + 1, Len(s)))

\* validate_search_types_str: every trimmed piece is a valid type, as written
validate_search_types_str(s) ==
    \A i \in DOMAIN SplitComma(s) : Trim(SplitComma(s)[i]) \in VALID_SEARCH_TYPES

\* the match on the lower-cased format name shared by both resolve_output_format
OutputFormatOf(s) ==
    IF IsSome(s) /\ ToLowercase(Unwrap(s)) \in VALID_OUTPUT_VALUES
    THEN Some(ToLowercase(Unwrap(s))) ELSE None

\* main.rs resolve_output_format: flag, then env / config, then auto-detection
resolve_output_format(cli_output, config, profile) ==
    IF IsSome(cli_output) THEN Unwrap(cli_output)
    ELSE IF IsSome(OutputFormatOf(resolve_output(config, profile)))
    THEN Unwrap(OutputFormatOf(resolve_output(config, profile)))
    ELSE IF stdout_tty THEN S_table ELSE S_tsv

\* main.rs resolve_output_format_headless
resolve_output_format_headless(cli_output) ==
    IF IsSome(cli_output) THEN Unwrap(cli_output)
    ELSE IF IsSome(OutputFormatOf(env.OUTPUT)) THEN Unwrap(OutputFormatOf(env.OUTPUT))
    ELSE IF stdout_tty THEN S_table ELSE S_tsv

-----------------------------------------------------------------------------
(* One invocation: src/src/main.rs, main up to the resolved settings.      *)

Running == [status |-> "running", err |-> "none", detail |-> None]
Done == [status |-> "ok", err |-> "none", detail |-> None]
Failed(e) == [status |-> "error", err |-> e, detail |-> None]
FailedWith(e, d) == [status |-> "error", err |-> e, detail |-> Some(d)]

NoPayload == [text |-> None, file |-> None, comment |-> None, upload |-> None]
NoSettings == [token |-> <<>>, channel |-> "", max_file_size |-> 0, confirm |-> FALSE]

\* main: cli.headless || config::is_headless_env()
Headless == cli.headless \/ is_headless_env

\* main: cli.profile.or_else(|| std::env::var("SLAFLING_PROFILE").ok())
SelectedProfile == IF IsSome(cli.profile) THEN cli.profile ELSE env.PROFILE

\* an invocation ends with error e
Fail(e, evs) ==
    /\ pc' = "done"
    /\ result' = Failed(e)
    /\ events' = events \o evs
    /\ UNCHANGED <<resolved, payload, calls, stdin>>

\* the inputs of an invocation, and the ones where nothing is set
NoEnv == [TOKEN |-> None, CHANNEL |-> None, HEADLESS |-> None, PROFILE |-> None,
          MAX_FILE_SIZE |-> None, CONFIRM |-> None, OUTPUT |-> None,
          SEARCH_TYPES |-> None]
NoSection == [channel |-> None, max_file_size |-> None, confirm |-> None,
              output |-> None, search_types |-> None]
NoDefault == [channel |-> None, max_file_size |-> None, confirm |-> None,
              output |-> None, search_types |-> None, token_store |-> None]
NoProfiles == [n \in {} |-> NoSection]
NoStore == [n \in {} |-> None]
NoSend == [text |-> None, file |-> None, filename |-> "stdin", yes |-> FALSE]
NoSearch == [query |-> "", output |-> None, types |-> None]
NoCli == [profile |-> None, headless |-> FALSE, command |-> "send", send |-> NoSend,
          search |-> NoSearch]
Terminal == [tty |-> TRUE, content |-> <<>>, reads |-> <<>>]

\* search_channels before its loop: let mut results = Vec::new(), cursor = String::new()
NoResults == [results |-> <<>>, cursor |-> ""]

\* the state of an invocation before main has run
Started ==
    /\ pc = "main"
    /\ resolved = NoSettings
    /\ payload = NoPayload
    /\ result = Running
    /\ calls = <<>>
    /\ events = <<>>
    /\ search = NoResults

StaticInputs == <<size, macos, env, cfgfile, filestore, keychain, cli, stdout_tty, search>>

\* main, layered mode: load_config fails (unreadable file or rejected value)
LoadConfigFailed ==
    /\ pc = "main"
    /\ ~Headless
    /\ cli.command \in {"validate", "search", "send"}
    /\ \E r \in load_config_outcomes :
         /\ ~r.ok
         /\ pc' = "done"
         /\ result' = IF r.section = "" THEN Failed(r.err) ELSE FailedWith(r.err, r.section)
         /\ events' = events \o <<"load_config">>
         /\ UNCHANGED <<resolved, payload, calls, stdin>>
    /\ UNCHANGED StaticInputs

\* main, layered mode, Command::Validate
RunValidate ==
    /\ pc = "main"
    /\ ~Headless
    /\ cli.command = "validate"
    /\ load_config.ok
    /\ pc' = "done"
    /\ result' = Done
    /\ events' = events \o <<"load_config">>
    /\ UNCHANGED <<resolved, payload, calls, stdin>>
    /\ UNCHANGED StaticInputs

\* main -> run_send: resolve, then run_send_with_resolved
RunSend ==
    /\ pc = "main"
    /\ ~Headless
    /\ cli.command = "send"
    /\ load_config.ok
    /\ LET r == resolve(load_config.val, SelectedProfile)
           evs == <<"load_config", "resolve">>
       IN  IF r.ok
           THEN /\ pc' = "send"
                /\ resolved' = r.val
                /\ events' = events \o evs
                /\ UNCHANGED <<payload, result, calls, stdin>>
           ELSE Fail(r.err, evs)
    /\ UNCHANGED StaticInputs

\* main -> run_search: search types, token and output format, up to search_channels
RunSearch ==
    /\ pc = "main"
    /\ ~Headless
    /\ cli.command = "search"
    /\ load_config.ok
    /\ LET config == load_config.val
           types == IF IsSome(cli.search.types) THEN Join(Unwrap(cli.search.types))
                    ELSE IF IsSome(resolve_search_types(config, SelectedProfile))
                    THEN Unwrap(resolve_search_types(config, SelectedProfile))
                    ELSE S_public_channel
           token == resolve_token(resolve_token_store(config), SelectedProfile)
           format == resolve_output_format(cli.search.output, config, SelectedProfile)
           evs == <<"load_config">>
                    \o (IF IsSome(cli.search.types) THEN <<>> ELSE <<"resolve_search_types">>)
                    \o <<"resolve_token">>
       IN  IF token.ok
           THEN /\ pc' = "search"
                /\ resolved' = [token |-> token.val, types |-> types, format |-> format]
                /\ events' = events \o evs
                           \o (IF IsSome(cli.search.output) THEN <<>> ELSE <<"resolve_output">>)
                /\ UNCHANGED <<payload, result, calls, stdin>>
           ELSE Fail(token.err, evs)
    /\ UNCHANGED StaticInputs

\* main -> run_headless, Command::Validate
RunHeadlessValidate ==
    /\ pc = "main"
    /\ Headless
    /\ cli.command = "validate"
    /\ Fail("validate has no effect in headless mode", <<>>)
    /\ UNCHANGED StaticInputs

\* main -> run_headless, no command: resolve_from_env, then run_send_with_resolved
RunHeadlessSend ==
    /\ pc = "main"
    /\ Headless
    /\ cli.command = "send"
    /\ LET r == resolve_from_env
       IN  IF r.ok
           THEN /\ pc' = "send"
                /\ resolved' = r.val
                /\ events' = events \o <<"resolve_from_env">>
                /\ UNCHANGED <<payload, result, calls, stdin>>
           ELSE Fail(r.err, <<"resolve_from_env">>)
    /\ UNCHANGED StaticInputs

\* main -> run_headless, Command::Search, up to search_channels
RunHeadlessSearch ==
    /\ pc = "main"
    /\ Headless
    /\ cli.command = "search"
    /\ LET token == resolve_token_from_env
           from_env == IF IsSome(resolve_search_types_from_env)
                       THEN Unwrap(resolve_search_types_from_env)
                       ELSE S_public_channel
           types == IF IsSome(cli.search.types) THEN Join(Unwrap(cli.search.types))
                    ELSE from_env
           format == resolve_output_format_headless(cli.search.output)
       IN  IF ~token.ok THEN Fail(token.err, <<"resolve_token_from_env">>)
           ELSE IF ~IsSome(cli.search.types) /\ ~validate_search_types_str(from_env)
           THEN Fail("invalid search type",
                     <<"resolve_token_from_env", "resolve_search_types_from_env">>)
           ELSE /\ pc' = "search"
                /\ resolved' = [token |-> token.val, types |-> types, format |-> format]
                /\ events' = events \o <<"resolve_token_from_env">>
                      \o (IF IsSome(cli.search.types) THEN <<>>
                          ELSE <<"resolve_search_types_from_env">>)
                /\ UNCHANGED <<payload, result, calls, stdin>>
    /\ UNCHANGED StaticInputs

-----------------------------------------------------------------------------
(* Sending: src/src/main.rs run_send_with_resolved, src/src/slack.rs.      *)

\* a byte of stdin that is no part of any UTF-8 text
BadByte == "0xFF"
ValidUtf8(bytes) == \A i \in DOMAIN bytes : bytes[i] # BadByte

\* the files std::fs::read can reach: their bytes, None when the read fails
FsRead(path) ==
    CASE path = "a.txt" -> Some(<<"a">>)
      [] path = "dir/big.bin" -> Some(<<"a", "a", "a">>)
      [] OTHER -> None

\* Path::file_name, on the paths of the model
FileName(path) == IF path = "dir/big.bin" THEN "big.bin" ELSE path

\* what a read of stdin to its end returns after the reads already made
StdinRest(in, reads) == IF reads = <<>> THEN in.content ELSE <<>>

\* mutation of AmbiguousStdin: the two flags are never found ambiguous
AmbiguousStdin_Unchecked(send) == FALSE

\* text_needs_stdin && file_needs_stdin
AmbiguousStdin(send) == send.text = Some(<<>>) /\ send.file = Some("")

PayloadError(e, reads) ==
    [err |-> e, text |-> None, file |-> None, reads |-> reads]

\* mutation of ResolveFile: stdin is read without asking whether it is a terminal
ResolveFile_TerminalRead(send, in) ==
    IF send.file = None THEN PayloadError("none", <<>>)
    ELSE IF Unwrap(send.file) = ""
    THEN [err |-> "none", text |-> None,
          file |-> Some([name |-> send.filename, data |-> StdinRest(in, <<>>)]),
          reads |-> <<"read_to_end">>]
    ELSE IF FsRead(Unwrap(send.file)) = None
    THEN PayloadError("failed to read file", <<>>)
    ELSE [err |-> "none", text |-> None,
          file |-> Some([name |-> FileName(Unwrap(send.file)),
                         data |-> Unwrap(FsRead(Unwrap(send.file)))]),
          reads |-> <<>>]

\* the match on send.file (main.rs 425-449)
ResolveFile(send, in) ==
    IF send.file = None THEN PayloadError("none", <<>>)
    ELSE IF Unwrap(send.file) = ""
    THEN IF in.tty
         THEN PayloadError("--file requires stdin input but stdin is a terminal", <<>>)
         ELSE [err |-> "none", text |-> None,
               file |-> Some([name |-> send.filename, data |-> StdinRest(in, <<>>)]),
               reads |-> <<"read_to_end">>]
    ELSE IF FsRead(Unwrap(send.file)) = None
    THEN PayloadError("failed to read file", <<>>)
    ELSE [err |-> "none", text |-> None,
          file |-> Some([name |-> FileName(Unwrap(send.file)),
                         data |-> Unwrap(FsRead(Unwrap(send.file)))]),
          reads |-> <<>>]

\* mutation of ResolveText: stdin is read without asking whether it is a terminal
ResolveText_TerminalRead(send, in, reads) ==
    IF send.text = None THEN PayloadError("none", reads)
    ELSE IF Unwrap(send.text) = <<>>
    THEN IF ~ValidUtf8(StdinRest(in, reads))
         THEN PayloadError("stream did not contain valid UTF-8",
                           Append(reads, "read_to_string"))
         ELSE [err |-> "none", text |-> Some(TrimEnd(StdinRest(in, reads))),
               file |-> None, reads |-> Append(reads, "read_to_string")]
    ELSE [err |-> "none", text |-> send.text, file |-> None, reads |-> reads]

\* the match on send.text (main.rs 452-466), after the reads of the file part
ResolveText(send, in, reads) ==
    IF send.text = None THEN PayloadError("none", reads)
    ELSE IF Unwrap(send.text) = <<>>
    THEN IF in.tty
         THEN PayloadError("--text requires stdin input but stdin is a terminal", reads)
         ELSE IF ~ValidUtf8(StdinRest(in, reads))
         THEN PayloadError("stream did not contain valid UTF-8",
                           Append(reads, "read_to_string"))
         ELSE [err |-> "none", text |-> Some(TrimEnd(StdinRest(in, reads))),
               file |-> None, reads |-> Append(reads, "read_to_string")]
    ELSE [err |-> "none", text |-> send.text, file |-> None, reads |-> reads]

\* the (text, file) of run_send_with_resolved (main.rs 405-469)
ResolvedPayload(send, in) ==
    IF send.text = None /\ send.file = None
    THEN IF in.tty
         THEN PayloadError("no input provided (use -t, -f, or pipe via stdin)", <<>>)
         ELSE IF ~ValidUtf8(in.content)
         THEN PayloadError("stream did not contain valid UTF-8", <<"read_to_string">>)
         ELSE [err |-> "none", text |-> Some(TrimEnd(in.content)), file |-> None,
               reads |-> <<"read_to_string">>]
    ELSE IF AmbiguousStdin(send)
    THEN PayloadError("both --text and --file require stdin; provide a value for at least one",
                      <<>>)
    ELSE LET f == ResolveFile(send, in)
             t == ResolveText(send, in, f.reads)
         IN  IF f.err # "none" THEN f
             ELSE IF t.err # "none" THEN t
             ELSE [err |-> "none", text |-> t.text, file |-> f.file, reads |-> t.reads]

SendInputs == <<size, macos, env, cfgfile, filestore, keychain, cli, stdout_tty, resolved,
                search>>

\* run_send_with_resolved, lines 405-469: the payload from the flags and stdin
ResolvePayload ==
    /\ pc = "send"
    /\ LET p == ResolvedPayload(cli.send, stdin)
       IN  /\ stdin' = [stdin EXCEPT !.reads = stdin.reads \o p.reads]
           /\ IF p.err = "none"
              THEN /\ pc' = "confirm"
                   /\ payload' = [payload EXCEPT !.text = p.text, !.file = p.file]
                   /\ UNCHANGED result
              ELSE /\ pc' = "done"
                   /\ result' = Failed(p.err)
                   /\ UNCHANGED payload
    /\ UNCHANGED <<calls, events>>
    /\ UNCHANGED SendInputs

\* the lines a user can type at the prompt
Answers == {<<"y">>, <<"Y">>, <<"y", "\n">>, <<"Y", "\n">>, <<" ", "y", "\n">>,
            <<"n", "\n">>, <<"y", "e", "s", "\n">>, <<"\n">>, <<>>}

\* mutation of IsAffirmative: a line that begins with y or Y is accepted
IsAffirmative_FirstLetter(input) == input # <<>> /\ input[1] \in {"y", "Y"}

\* matches!(input.trim(), "y" | "Y") (main.rs 492)
IsAffirmative(input) == Trim(input) \in {<<"y">>, <<"Y">>}

\* mutation of ConfirmRequired: a send without a terminal is not held up
ConfirmRequired_TerminalOnly(settings, send) == settings.confirm /\ ~send.yes /\ stdin.tty

\* mutation of ConfirmRequired: --yes is not looked at
ConfirmRequired_YesIgnored(settings, send) == settings.confirm

\* resolved.confirm && !send.yes (main.rs 471)
ConfirmRequired(settings, send) == settings.confirm /\ ~send.yes

\* run_send_with_resolved, lines 471-495: the confirmation gate; on a terminal the
\* line read becomes the content of stdin
ConfirmGate ==
    /\ pc = "confirm"
    /\ LET prompts == ConfirmRequired(resolved, cli.send) /\ stdin.tty
       IN  \E input \in (IF prompts THEN Answers ELSE {<<>>}) :
             IF ConfirmRequired(resolved, cli.send)
             THEN IF ~stdin.tty
                  THEN /\ pc' = "done"
                       /\ result' = Failed("confirm is enabled but stdin is not a TTY (pass -y to skip confirmation)")
                       /\ UNCHANGED stdin
                  ELSE /\ stdin' = [stdin EXCEPT !.reads = Append(stdin.reads, "read_line"),
                                                 !.content = input]
                       /\ IF IsAffirmative(input)
                          THEN pc' = "dispatch" /\ UNCHANGED result
                          ELSE pc' = "done" /\ result' = Failed("aborted")
             ELSE /\ pc' = "dispatch"
                  /\ UNCHANGED <<result, stdin>>
    /\ UNCHANGED <<payload, calls, events>>
    /\ UNCHANGED SendInputs

\* mutation of InitialComment: the text is the comment even when empty
InitialComment_EmptyKept(text) == text

\* the comment of an upload (main.rs 508-511): none for an absent or empty text
InitialComment(text) == IF text \in {None, Some(<<>>)} THEN None ELSE text

\* mutation of MessageIsEmpty: no message counts as empty
MessageIsEmpty_Never(text) == FALSE

\* text.unwrap_or_default().is_empty() (main.rs 516-517)
MessageIsEmpty(text) == text \in {None, Some(<<>>)}

\* mutation of ExceedsLimit: a file as large as the limit is rejected too
ExceedsLimit_OrEqual(len, limit) == len >= limit

\* data.len() as u64 > resolved.max_file_size (main.rs 499)
ExceedsLimit(len, limit) == len > limit

\* run_send_with_resolved, lines 497-521: the size check or the empty-message check
Dispatch ==
    /\ pc = "dispatch"
    /\ IF IsSome(payload.file)
       THEN LET data == Unwrap(payload.file).data
            IN  IF ExceedsLimit(Len(data), resolved.max_file_size)
                THEN /\ pc' = "done"
                     /\ result' = FailedWith("file size exceeds limit",
                                        <<format_size(Len(data)),
                                          format_size(resolved.max_file_size)>>)
                     /\ UNCHANGED payload
                ELSE /\ pc' = "get_upload_url"
                     /\ payload' = [payload EXCEPT !.comment = InitialComment(payload.text)]
                     /\ UNCHANGED result
       ELSE IF MessageIsEmpty(payload.text)
            THEN /\ pc' = "done"
                 /\ result' = Failed("message is empty")
                 /\ UNCHANGED payload
            ELSE /\ pc' = "post_message"
                 /\ UNCHANGED <<payload, result>>
    /\ UNCHANGED <<stdin, calls, events>>
    /\ UNCHANGED SendInputs

\* what comes back: no response at all, a body that does not parse, or the fields
NoResponse == [transport |-> FALSE, parses |-> FALSE, ok |-> "absent", error |-> None,
               upload_url |-> None, file_id |-> None, channels |-> <<>>,
               next_cursor |-> None]
Garbled == [NoResponse EXCEPT !.transport = TRUE]
Body(ok, error) == [Garbled EXCEPT !.parses = TRUE, !.ok = ok, !.error = error]

\* mutation of Request: the Authorization header goes out with every request
Request_AlwaysBearer(endpoint, bearer) ==
    [endpoint |-> endpoint, bearer |-> Some(resolved.token), channel |-> None,
     text |-> None, filename |-> None, length |-> None, data |-> None,
     file_id |-> None, comment |-> None, cursor |-> None, answer |-> NoResponse]

\* a request as the transport records it, with the answer it got: fields a
\* request lacks are None
Request(endpoint, bearer) ==
    [endpoint |-> endpoint, bearer |-> bearer, channel |-> None, text |-> None,
     filename |-> None, length |-> None, data |-> None, file_id |-> None,
     comment |-> None, cursor |-> None, answer |-> NoResponse]

ErrorCode(resp) == IF IsSome(resp.error) THEN Unwrap(resp.error) ELSE "unknown error"

\* the body is any JSON value: ok may be missing or not a boolean ("1")
PostMessageResponses ==
    {NoResponse, Garbled, Body("true", None), Body("false", Some("channel_not_found")),
     Body("false", None), Body("absent", None), Body("absent", Some("invalid_auth")),
     Body("1", None)}

\* mutation of post_message: only an ok of false is an error
post_message_OkNotFalse(resp) ==
    IF ~resp.transport THEN Failed("failed to call Slack API")
    ELSE IF ~resp.parses THEN Failed("failed to parse Slack API response")
    ELSE IF resp.ok = "false" THEN FailedWith("Slack API error", ErrorCode(resp))
    ELSE Done

\* slack.rs post_message, lines 16-28: what it returns for an answer
post_message(resp) ==
    IF ~resp.transport THEN Failed("failed to call Slack API")
    ELSE IF ~resp.parses THEN Failed("failed to parse Slack API response")
    ELSE IF resp.ok # "true" THEN FailedWith("Slack API error", ErrorCode(resp))
    ELSE Done

\* slack.rs post_message: one request, and its outcome ends the send
PostMessage ==
    /\ pc = "post_message"
    /\ \E resp \in PostMessageResponses :
         /\ calls' = Append(calls,
                [Request("chat.postMessage", Some(resolved.token))
                    EXCEPT !.channel = Some(resolved.channel), !.text = payload.text,
                           !.answer = resp])
         /\ pc' = "done"
         /\ result' = post_message(resp)
    /\ UNCHANGED <<payload, stdin, events>>
    /\ UNCHANGED SendInputs

UploadUrl == "https://files.slack.com/upload/v1/abc"
FileId == "F123"

\* GetUploadUrlResponse needs a boolean ok to parse
GetUploadUrlResponses ==
    {NoResponse, Garbled, Body("false", Some("invalid_auth")), Body("false", None),
     Body("true", None),
     [Body("true", None) EXCEPT !.upload_url = Some(UploadUrl)],
     [Body("true", None) EXCEPT !.file_id = Some(FileId)],
     [Body("true", None) EXCEPT !.upload_url = Some(UploadUrl), !.file_id = Some(FileId)]}

\* slack.rs get_upload_url, lines 52-66: what it returns for an answer; the pair
\* (upload_url, file_id) of a success is the detail
get_upload_url(resp) ==
    IF ~resp.transport THEN Failed("failed to call files.getUploadURLExternal")
    ELSE IF ~resp.parses THEN Failed("failed to parse getUploadURLExternal response")
    ELSE IF resp.ok # "true"
    THEN FailedWith("Slack API error (getUploadURLExternal)", ErrorCode(resp))
    ELSE IF ~IsSome(resp.upload_url) THEN Failed("missing upload_url in response")
    ELSE IF ~IsSome(resp.file_id) THEN Failed("missing file_id in response")
    ELSE [Done EXCEPT !.detail = Some([upload_url |-> Unwrap(resp.upload_url),
                                       file_id |-> Unwrap(resp.file_id)])]

\* upload_file_bytes, line 133: the first step and its ?
GetUploadUrl ==
    /\ pc = "get_upload_url"
    /\ \E resp \in GetUploadUrlResponses :
         /\ calls' = Append(calls,
                [Request("files.getUploadURLExternal", Some(resolved.token))
                    EXCEPT !.filename = Some(Unwrap(payload.file).name),
                           !.length = Some(Len(Unwrap(payload.file).data)),
                           !.answer = resp])
         /\ LET r == get_upload_url(resp)
            IN  IF r.status = "ok"
                THEN /\ pc' = "upload_file_content"
                     /\ payload' = [payload EXCEPT !.upload = r.detail]
                     /\ UNCHANGED result
                ELSE /\ pc' = "done"
                     /\ result' = r
                     /\ UNCHANGED payload
    /\ UNCHANGED <<stdin, events>>
    /\ UNCHANGED SendInputs

\* mutation of upload_file_content: the outcome of the transfer is not looked at
upload_file_content_Unchecked(resp) == Done

\* slack.rs upload_file_content, lines 70-74: what it returns for an answer
upload_file_content(resp) ==
    IF ~resp.transport THEN Failed("failed to upload file content") ELSE Done

\* upload_file_bytes, line 134: the bytes go to the URL of the first step, without
\* a bearer; the body of the answer is not read
UploadFileContent ==
    /\ pc = "upload_file_content"
    /\ \E resp \in {NoResponse, Garbled} :
         /\ calls' = Append(calls,
                [Request(Unwrap(payload.upload).upload_url, None)
                    EXCEPT !.data = Some(Unwrap(payload.file).data), !.answer = resp])
         /\ LET r == upload_file_content(resp)
            IN  IF r.status = "ok"
                THEN pc' = "complete_upload" /\ UNCHANGED result
                ELSE pc' = "done" /\ result' = r
    /\ UNCHANGED <<payload, stdin, events>>
    /\ UNCHANGED SendInputs

\* CompleteUploadResponse needs a boolean ok to parse
CompleteUploadResponses ==
    {NoResponse, Garbled, Body("false", Some("channel_not_found")), Body("false", None),
     Body("true", None)}

\* mutation of complete_upload: its errors are worded as those of post_message
complete_upload_Unlabelled(resp) ==
    IF ~resp.transport THEN Failed("failed to call Slack API")
    ELSE IF ~resp.parses THEN Failed("failed to parse Slack API response")
    ELSE IF resp.ok # "true" THEN FailedWith("Slack API error", ErrorCode(resp))
    ELSE Done

\* slack.rs complete_upload, lines 108-123: what it returns for an answer
complete_upload(resp) ==
    IF ~resp.transport THEN Failed("failed to call files.completeUploadExternal")
    ELSE IF ~resp.parses THEN Failed("failed to parse completeUploadExternal response")
    ELSE IF resp.ok # "true"
    THEN FailedWith("Slack API error (completeUploadExternal)", ErrorCode(resp))
    ELSE Done

\* upload_file_bytes, line 135: the last step, and its outcome ends the send
CompleteUpload ==
    /\ pc = "complete_upload"
    /\ \E resp \in CompleteUploadResponses :
         /\ calls' = Append(calls,
                [Request("files.completeUploadExternal", Some(resolved.token))
                    EXCEPT !.file_id = Some(Unwrap(payload.upload).file_id),
                           !.filename = Some(Unwrap(payload.file).name),
                           !.channel = Some(resolved.channel),
                           !.comment = payload.comment,
                           !.answer = resp])
         /\ pc' = "done"
         /\ result' = complete_upload(resp)
    /\ UNCHANGED <<payload, stdin, events>>
    /\ UNCHANGED SendInputs

-----------------------------------------------------------------------------
(* Searching: src/src/slack.rs search_channels, main.rs run_search_with_token. *)

\* the characters of the model's names in byte order
ByteOrder == <<"-">> \o Digits \o Uppers \o <<"_">> \o Lowers
CharOrd(c) == CHOOSE i \in DOMAIN ByteOrder : ByteOrder[i] = c

\* <str as Ord>::cmp(a, b) = Less: byte-wise lexicographic order
StrLess(a, b) ==
    \E k \in 1..(Len(b)) :
        /\ k <= Len(a) + 1
        /\ \A j \in 1..(k - 1) : a[j] = b[j]
        /\ k = Len(a) + 1 \/ CharOrd(a[k]) < CharOrd(b[k])

\* str::contains
Contains(s, sub) ==
    \E i \in 0..(Len(s) - Len(sub)) : SubSeq(s, i + 1, i + Len(sub)) = sub

\* mutation of NameMatches: the names are compared as they are spelled
NameMatches_CaseSensitive(name, query) == Contains(name, query)

\* ch.name.to_lowercase().contains(&query_lower) (slack.rs 163, 192)
NameMatches(name, query) == Contains(ToLowercase(name), ToLowercase(query))

\* the loop over body.channels (slack.rs 191-195): the matching ones, in order
RECURSIVE MatchingChannels(_, _)
MatchingChannels(channels, query) ==
    IF channels = <<>> THEN <<>>
    ELSE LET rest == MatchingChannels(Tail(channels), query)
         IN  IF NameMatches(Head(channels).name, query)
             THEN <<Head(channels)>> \o rest
             ELSE rest

\* mutation of InsertByName: the new element goes before the ones of equal name
InsertByName_BeforeEqual(sorted, ch) ==
    LET before == { i \in DOMAIN sorted : StrLess(sorted[i].name, ch.name) }
        n == Cardinality(before)
    IN  SubSeq(sorted, 1, n) \o <<ch>> \o SubSeq(sorted, n + 1, Len(sorted))

\* one step of the stable sort: ch, which came after every element of sorted,
\* goes behind the elements whose name is not greater
InsertByName(sorted, ch) ==
    LET before == { i \in DOMAIN sorted : ~StrLess(ch.name, sorted[i].name) }
        n == Cardinality(before)
    IN  SubSeq(sorted, 1, n) \o <<ch>> \o SubSeq(sorted, n + 1, Len(sorted))

\* results.sort_by(|a, b| a.0.cmp(&b.0)) (slack.rs 207): a stable sort by name
RECURSIVE SortByName(_)
SortByName(results) ==
    IF results = <<>> THEN <<>>
    ELSE InsertByName(SortByName(SubSeq(results, 1, Len(results) - 1)),
                      results[Len(results)])

\* mutation of NextCursor: an empty cursor is followed like any other
NextCursor_EmptyFollowed(resp) == resp.next_cursor

\* body.response_metadata.and_then(|m| m.next_cursor).filter(|c| !c.is_empty())
\* (slack.rs 197-200)
NextCursor(resp) ==
    IF IsSome(resp.next_cursor) /\ Unwrap(resp.next_cursor) # "" THEN resp.next_cursor
    ELSE None

\* process exit status of main returning Err, and of std::process::exit(1)
EXIT_FAILURE == 1

\* the process was ended by std::process::exit(code) after printing msg
Exited(code, msg) == [status |-> "exit", err |-> msg, detail |-> Some(code)]

\* the exit status of the process: 0 for Ok(()), the status of the Termination
\* of an Err, or the argument of std::process::exit
ExitStatus(r) ==
    IF r.status = "ok" THEN 0
    ELSE IF r.status = "exit" THEN Unwrap(r.detail)
    ELSE EXIT_FAILURE

\* run_search_with_token, lines 289-300, on the sorted channels
SearchOutcome(channels) ==
    IF channels = <<>> THEN Exited(1, "no channels matching") ELSE Done

\* the pages the listing may answer with
Ch(name, id) == [name |-> name, id |-> id]
PageChannels ==
    { <<>>,
      <<Ch(<<"b">>, "C1"), Ch(<<"A">>, "C2")>>,
      <<Ch(<<"b">>, "C3"), Ch(<<"a", "B">>, "C4")>> }
Cursors == {None, Some(""), Some("c1"), Some("c2")}
Page(channels, next) ==
    [Body("true", None) EXCEPT !.channels = channels, !.next_cursor = next]

\* ConversationsListResponse needs a boolean ok to parse
ListResponses ==
    {NoResponse, Garbled, Body("false", Some("invalid_auth"))}
        \cup { Page(c, n) : c \in PageChannels, n \in Cursors }

\* requests after which the model stops following cursors
MaxRequests == 3

\* search_channels, one turn of its loop (slack.rs 167-205): one request; then an
\* error, the next turn, or the sort and run_search_with_token's outcome
SearchChannels ==
    /\ pc = "search"
    /\ Len(calls) < MaxRequests
    /\ \E resp \in ListResponses :
         /\ calls' = Append(calls,
                [Request("conversations.list", Some(resolved.token))
                    EXCEPT !.cursor = IF search.cursor # "" THEN Some(search.cursor)
                                      ELSE None,
                           !.answer = resp])
         /\ IF ~resp.transport
            THEN /\ pc' = "done"
                 /\ result' = Failed("failed to call conversations.list")
                 /\ UNCHANGED search
            ELSE IF ~resp.parses
            THEN /\ pc' = "done"
                 /\ result' = Failed("failed to parse conversations.list response")
                 /\ UNCHANGED search
            ELSE IF resp.ok # "true"
            THEN /\ pc' = "done"
                 /\ result' = FailedWith("Slack API error (conversations.list)",
                                         ErrorCode(resp))
                 /\ UNCHANGED search
            ELSE LET found == search.results
                                \o MatchingChannels(resp.channels, cli.search.query)
                 IN  IF IsSome(NextCursor(resp))
                     THEN /\ search' = [results |-> found,
                                        cursor |-> Unwrap(NextCursor(resp))]
                          /\ UNCHANGED <<pc, result>>
                     ELSE /\ search' = [search EXCEPT !.results = SortByName(found)]
                          /\ pc' = "done"
                          /\ result' = SearchOutcome(SortByName(found))
    /\ UNCHANGED <<size, macos, env, cfgfile, filestore, keychain, cli, stdout_tty,
                   stdin, resolved, payload, events>>

-----------------------------------------------------------------------------
(* The size functions applied to bounded inputs.                           *)

\* longest enumerated size string
MaxStrLen == 3
\* byte counts this close to a unit boundary are all tried
Window == 60
\* number of strided byte counts tried in the MB and GB ranges
SampleCount == 150

SizeChars == {"1", "5", ".", "-", " ", "k", "K", "B", "M", "G", "X"}

SizeExamples ==
    { <<"1",".","5","M","B">>, <<"1",".","5","m","b">>, <<"1","0","0","M","B">>,
      <<"5","0","M","B">>, <<"1",".","5","G","B">>, <<" ","1"," ","K","B"," ">>,
      <<"1","0","2","4">>, <<"0",".","5","K">>, <<"1","e","3">>,
      <<"1",".","5","T","B">>, <<"-","1",".","5","K","B">>, <<"1",".","5",".","K">> }

\* the value of s stays below MaxBytes (strings that fail to parse always fit)
SizeFits(s) ==
    LET parts == SplitSize(s)
        num   == ParseF64(parts.num_part)
        mult  == UnitMultiplier(parts.unit)
    IN  \/ ~num.ok
        \/ mult = 0
        \/ num.mant \div Pow10(num.dec) <= MaxBytes \div mult

SizeInputs == { s \in SeqsUpTo(SizeChars, MaxStrLen) \cup SizeExamples : SizeFits(s) }

ByteSamples ==
    (0 .. (2 * KB + Window))
        \cup ((MB - Window) .. (MB + Window))
        \cup ((GB - Window) .. (GB + Window))
        \cup { 1280 * KB, 1280 * MB, DEFAULT_MAX_FILE_SIZE }
        \cup { k * 104729 : k \in 0..SampleCount }
        \cup { k * 9999991 : k \in 0..SampleCount }

SizeIdle ==
    [pc |-> "idle", str |-> None, bytes |-> 0, parsed |-> Err("none"),
     formatted |-> <<>>, reparsed |-> Err("none"), reformatted |-> <<>>]

\* no invocation runs while the size functions are exercised
NoInvocation ==
    /\ macos = FALSE
    /\ env = NoEnv
    /\ cfgfile = None
    /\ filestore = NoStore
    /\ keychain = NoStore
    /\ cli = NoCli
    /\ stdin = Terminal
    /\ stdout_tty = TRUE
    /\ pc = "idle"
    /\ resolved = NoSettings
    /\ payload = NoPayload
    /\ result = Running
    /\ calls = <<>>
    /\ events = <<>>
    /\ search = NoResults

InitSize ==
    /\ \/ \E s \in { Some(x) : x \in SizeInputs } \cup {None} :
            size = [SizeIdle EXCEPT !.pc = "str", !.str = s]
       \/ \E n \in ByteSamples :
            size = [SizeIdle EXCEPT !.pc = "bytes", !.bytes = n]
    /\ NoInvocation

\* a configured size (or none) is resolved to a byte count
ResolveMaxFileSize ==
    /\ size.pc = "str"
    /\ size' = [size EXCEPT !.pc = "parsed",
                            !.parsed = resolve_max_file_size(size.str)]
    /\ UNCHANGED progVars

\* a byte count is formatted for display
FormatSize ==
    /\ size.pc = "bytes"
    /\ size' = [size EXCEPT !.pc = "formatted",
                            !.formatted = format_size(size.bytes)]
    /\ UNCHANGED progVars

\* the displayed size is parsed again
ParseFormatted ==
    /\ size.pc = "formatted"
    /\ size' = [size EXCEPT !.pc = "reparsed",
                            !.reparsed = parse_file_size(size.formatted)]
    /\ UNCHANGED progVars

\* and the parsed value is formatted once more
FormatReparsed ==
    /\ size.pc = "reparsed"
    /\ size.reparsed.ok
    /\ size' = [size EXCEPT !.pc = "reformatted",
                            !.reformatted = format_size(size.reparsed.val)]
    /\ UNCHANGED progVars

NextSize == ResolveMaxFileSize \/ FormatSize \/ ParseFormatted \/ FormatReparsed

SpecSize == InitSize /\ [][NextSize]_vars

-----------------------------------------------------------------------------
(* Invocations on bounded inputs: from main to the resolved settings.      *)

C_general == "#general"
C_work == "#work"
C_env == "#env"
T_env == <<"x", "e">>
T_file == <<"x", "f">>
T_work == <<"x", "w">>
T_key == <<"x", "k">>
Hi == <<"h", "i">>

\* a send of the text "hi" with the prompt skipped
SendHi == [NoSend EXCEPT !.text = Some(Hi), !.yes = TRUE]

ChannelsDefault == {None, Some(""), Some(C_general)}
ChannelsProfile == {None, Some(""), Some(C_work)}
SizesDefault == {None, Some(<<"1", "K", "B">>), Some(<<"1", "X", "B">>)}
SizesProfile == {None, Some(<<"2", "M">>), Some(<<"k">>)}
Confirms == {None, Some(TRUE), Some(FALSE)}

\* config files where default and the profile "work" each set or leave the three fields
LayeredConfigs ==
    { [default |-> [NoDefault EXCEPT !.channel = dc, !.max_file_size = dm, !.confirm = df],
       profiles |-> ps] :
        dc \in ChannelsDefault, dm \in SizesDefault, df \in Confirms,
        ps \in {NoProfiles} \cup
               { [n \in {"work"} |->
                    [NoSection EXCEPT !.channel = pch, !.max_file_size = pm, !.confirm = pf]] :
                 pch \in ChannelsProfile, pm \in SizesProfile, pf \in Confirms } }

\* layered sends: the credential from the environment, the rest from the file
InitLayers ==
    /\ macos = FALSE
    /\ stdout_tty = TRUE
    /\ env \in { [NoEnv EXCEPT !.TOKEN = Some(T_env), !.CHANNEL = c] :
                    c \in {None, Some(C_env)} }
    /\ cfgfile \in { Some(c) : c \in LayeredConfigs }
    /\ filestore = NoStore
    /\ keychain = NoStore
    /\ cli \in { [NoCli EXCEPT !.profile = p, !.send = SendHi] :
                    p \in {None, Some("work"), Some("typo")} }

StoreNames == {S_file, S_keychain, <<"F", "I", "L", "E">>, <<"v", "a", "u", "l", "t">>}
EnvTokens == {None, Some(<<>>), Some(T_env)}

\* what the file store holds: nothing, white space only, a token with its newline
FileStores ==
    { [n \in {"default", "work"} |-> IF n = "default" THEN d ELSE w] :
        d \in {None, Some(<<" ", "\n">>), Some(T_file \o <<"\n">>)},
        w \in {None, Some(T_work)} }
\* what the Keychain holds: nothing, or a token as store_token wrote it (never empty)
Keychains ==
    { [n \in {"default", "work"} |-> IF n = "default" THEN d ELSE w] :
        d \in {None, Some(T_key)}, w \in {None} }

\* sends whose credential comes from the environment or from a store
InitTokens ==
    /\ macos \in BOOLEAN
    /\ stdout_tty = TRUE
    /\ env \in { [NoEnv EXCEPT !.TOKEN = t, !.PROFILE = p] :
                    t \in EnvTokens, p \in {None, Some("work")} }
    /\ cfgfile \in { Some([default |-> [NoDefault EXCEPT !.channel = c, !.token_store = ts],
                           profiles |-> ps]) :
                        c \in {None, Some(C_general)},
                        ts \in {None} \cup { Some(x) : x \in StoreNames },
                        ps \in {NoProfiles, [n \in {"work"} |-> NoSection]} }
    /\ filestore \in FileStores
    /\ keychain \in Keychains
    /\ cli \in { [NoCli EXCEPT !.profile = p, !.send = SendHi] :
                    p \in {None, Some("typo"), Some("..")} }

OutputsDefault == {None, Some(S_json)}
OutputsProfile == {None, Some(<<"T", "S", "V">>), Some(<<"x", "m", "l">>)}
OutputsEnv == {None, Some(S_table), Some(<<"b", "o", "g", "u", "s">>)}
TypesDefault == {None, Some(<<S_im>>)}
TypesProfile == {None, Some(<<S_mpim, S_im>>)}

\* layered searches: output format and search types from flag, environment and file
InitSearches ==
    /\ macos = FALSE
    /\ stdout_tty \in BOOLEAN
    /\ env \in { [NoEnv EXCEPT !.TOKEN = t, !.OUTPUT = o] :
                    t \in {None, Some(T_env)}, o \in OutputsEnv }
    /\ cfgfile \in { Some([default |-> [NoDefault EXCEPT !.output = o, !.search_types = st],
                           profiles |-> ps]) :
                        o \in OutputsDefault, st \in TypesDefault,
                        ps \in {NoProfiles} \cup
                               { [n \in {"work"} |->
                                    [NoSection EXCEPT !.output = po, !.search_types = pst]] :
                                 po \in OutputsProfile, pst \in TypesProfile } }
    /\ filestore = NoStore
    /\ keychain = NoStore
    /\ cli \in { [NoCli EXCEPT !.profile = p, !.command = "search",
                                !.search = [query |-> "gen", output |-> o, types |-> t]] :
                    p \in {None, Some("work"), Some("typo")},
                    o \in {None, Some(S_json)},
                    t \in {None, Some(<<S_private_channel>>)} }

Truthies == {None, Some(<<"1">>), Some(<<"T", "R", "U", "E">>), Some(<<"n", "o">>)}
ConfirmVars == {None, Some(<<>>), Some(<<"1">>), Some(<<"t", "r", "u", "e">>),
                Some(<<"Y", "e", "s">>), Some(<<"n", "o">>)}
SizeVars == {None, Some(<<>>), Some(<<"1", "K", "B">>), Some(<<"X", "B">>)}
BasicConfig == [default |-> [NoDefault EXCEPT !.channel = Some(C_general),
                                              !.confirm = Some(TRUE)],
                profiles |-> NoProfiles]

\* sends with and without the headless switch, the settings in the environment
InitHeadless ==
    /\ macos = FALSE
    /\ stdout_tty = TRUE
    /\ env \in [TOKEN : EnvTokens, CHANNEL : {None, Some(""), Some(C_env)},
                 HEADLESS : Truthies, PROFILE : {None, Some("typo")},
                 MAX_FILE_SIZE : SizeVars, CONFIRM : ConfirmVars,
                 OUTPUT : {None}, SEARCH_TYPES : {None}]
    /\ cfgfile \in {None, Some(BasicConfig)}
    /\ filestore = [n \in {"default"} |-> Some(T_file)]
    /\ keychain = NoStore
    /\ cli \in { [NoCli EXCEPT !.headless = h, !.send = SendHi] : h \in BOOLEAN }

TypeVars == {None, Some(<<>>), Some(S_im \o <<",", " ">> \o S_mpim),
             Some(<<"I", "M">>)}

\* searches and validations with and without the headless switch
InitHeadlessCommands ==
    /\ macos = FALSE
    /\ stdout_tty \in BOOLEAN
    /\ env \in [TOKEN : EnvTokens, CHANNEL : {None}, HEADLESS : {None, Some(<<"y", "e", "s">>)},
                 PROFILE : {None}, MAX_FILE_SIZE : {None}, CONFIRM : {None},
                 OUTPUT : OutputsEnv, SEARCH_TYPES : TypeVars]
    /\ cfgfile \in {None, Some(BasicConfig)}
    /\ filestore = NoStore
    /\ keychain = NoStore
    /\ cli \in { [NoCli EXCEPT !.headless = h, !.command = c,
                                !.search = [query |-> "gen", output |-> None, types |-> t]] :
                    h \in BOOLEAN, c \in {"search", "validate"},
                    t \in {None, Some(<<S_private_channel>>)} }

InitResolve ==
    /\ size = SizeIdle
    /\ stdin = Terminal
    /\ Started
    /\ \/ InitLayers
       \/ InitTokens
       \/ InitSearches
       \/ InitHeadless
       \/ InitHeadlessCommands

NextResolve ==
    \/ LoadConfigFailed
    \/ RunValidate
    \/ RunSend
    \/ RunSearch
    \/ RunHeadlessValidate
    \/ RunHeadlessSend
    \/ RunHeadlessSearch
    \/ ResolvePayload
    \/ ConfirmGate
    \/ Dispatch
    \/ PostMessage

SpecResolve == InitResolve /\ [][NextResolve]_vars

-----------------------------------------------------------------------------
(* Sends on bounded inputs: flags, standard input and the service's answers. *)

MaxStdinLen == 2
StdinBytes == {"a", " ", "\n", BadByte}
StdinExamples ==
    { <<"h", "i", "\n">>, <<" ", "a", " ", "b", " ", "\n">>, <<"a", "\n", "\n">> }

\* a pipe holding the bytes, or a terminal
Stdins ==
    {Terminal} \cup
    { [tty |-> FALSE, content |-> c, reads |-> <<>>] :
        c \in SeqsUpTo(StdinBytes, MaxStdinLen) \cup StdinExamples }

SendFlags ==
    [text : {None, Some(<<>>), Some(Hi)},
     file : {None, Some(""), Some("a.txt"), Some("dir/big.bin"), Some("missing")},
     filename : {"stdin", "x.png"},
     yes : BOOLEAN]

\* a configuration with a channel, with or without confirm and a limit of 2 bytes
SendConfigs ==
    { [default |-> [NoDefault EXCEPT !.channel = Some(C_general)], profiles |-> NoProfiles],
      [default |-> [NoDefault EXCEPT !.channel = Some(C_general), !.confirm = Some(TRUE),
                                     !.max_file_size = Some(<<"2">>)],
       profiles |-> NoProfiles] }

\* the same two settings given headless, through the environment
SendEnvs ==
    { [NoEnv EXCEPT !.TOKEN = Some(T_env), !.CHANNEL = Some(C_env)],
      [NoEnv EXCEPT !.TOKEN = Some(T_env), !.CHANNEL = Some(C_env),
                    !.CONFIRM = Some(<<"y", "e", "s">>), !.MAX_FILE_SIZE = Some(<<"2">>)] }

Init ==
    /\ size = SizeIdle
    /\ macos = FALSE
    /\ stdout_tty = TRUE
    /\ filestore = NoStore
    /\ keychain = NoStore
    /\ Started
    /\ stdin \in Stdins
    /\ \/ /\ env = [NoEnv EXCEPT !.TOKEN = Some(T_env)]
          /\ cfgfile \in { Some(c) : c \in SendConfigs }
          /\ cli \in { [NoCli EXCEPT !.send = f] : f \in SendFlags }
       \/ /\ env \in SendEnvs
          /\ cfgfile = None
          /\ cli \in { [NoCli EXCEPT !.headless = TRUE, !.send = f] : f \in SendFlags }

Next ==
    \/ RunSend
    \/ RunHeadlessSend
    \/ ResolvePayload
    \/ ConfirmGate
    \/ Dispatch
    \/ PostMessage
    \/ GetUploadUrl
    \/ UploadFileContent
    \/ CompleteUpload

Spec == Init /\ [][Next]_vars

-----------------------------------------------------------------------------
(* Searches on bounded inputs: queries, settings and the listing's answers. *)

Queries == { <<>>, <<"B">>, <<"z">> }

InitSearch ==
    /\ size = SizeIdle
    /\ macos = FALSE
    /\ stdout_tty = TRUE
    /\ filestore = NoStore
    /\ keychain = NoStore
    /\ stdin = Terminal
    /\ Started
    /\ env \in { NoEnv, [NoEnv EXCEPT !.TOKEN = Some(T_env)] }
    /\ cfgfile \in { None, Some(BasicConfig) }
    /\ cli \in { [NoCli EXCEPT !.headless = h, !.command = "search",
                                !.search = [query |-> q, output |-> None, types |-> None]] :
                    h \in BOOLEAN, q \in Queries }

NextSearch ==
    \/ LoadConfigFailed
    \/ RunSearch
    \/ RunHeadlessSearch
    \/ SearchChannels

SpecSearch == InitSearch /\ [][NextSearch]_vars

\* sends and searches together: every invocation that makes remote calls
InitRemote == Init \/ InitSearch

NextRemote == Next \/ NextSearch

SpecRemote == InitRemote /\ [][NextRemote]_vars

-----------------------------------------------------------------------------
(* Configurations with valid and unknown values, loaded by every command.  *)

S_foo == <<"f", "o", "o">>
OutputsLoaded == {None, Some(<<"J", "S", "O", "N">>), Some(<<"y", "a", "m", "l">>)}
TypesLoaded == {None, Some(<<S_im, <<"M", "p", "i", "m">>>>), Some(<<S_im, S_foo>>)}
StoresLoaded == {None, Some(<<"F", "I", "L", "E">>), Some(<<"r", "e", "d", "i", "s">>)}
SectionsLoaded ==
    { NoSection,
      [NoSection EXCEPT !.output = Some(<<"T", "S", "V">>), !.search_types = Some(<<S_mpim>>)],
      [NoSection EXCEPT !.output = Some(<<"x", "m", "l">>)],
      [NoSection EXCEPT !.search_types = Some(<<S_foo>>)] }
ProfilesLoaded ==
    {NoProfiles}
        \cup { [n \in {"work"} |-> w] : w \in SectionsLoaded }
        \cup { [n \in {"work", "old"} |-> IF n = "work" THEN w ELSE o] :
                    w \in SectionsLoaded, o \in SectionsLoaded }

InitLoad ==
    /\ size = SizeIdle
    /\ macos = FALSE
    /\ stdout_tty = TRUE
    /\ filestore = NoStore
    /\ keychain = NoStore
    /\ stdin = Terminal
    /\ Started
    /\ env = [NoEnv EXCEPT !.TOKEN = Some(T_env)]
    /\ cfgfile \in { Some([default |-> [NoDefault EXCEPT !.channel = Some(C_general),
                                                        !.output = o, !.search_types = st,
                                                        !.token_store = ts],
                           profiles |-> ps]) :
                        o \in OutputsLoaded, st \in TypesLoaded, ts \in StoresLoaded,
                        ps \in ProfilesLoaded }
    /\ cli \in { [NoCli EXCEPT !.profile = p, !.command = c, !.send = SendHi,
                                !.search = [query |-> <<"B">>, output |-> None,
                                            types |-> None]] :
                    p \in {None, Some("work")}, c \in {"send", "search", "validate"} }

NextLoad ==
    \/ LoadConfigFailed
    \/ RunValidate
    \/ RunSend
    \/ RunSearch
    \/ ResolvePayload
    \/ ConfirmGate
    \/ Dispatch
    \/ PostMessage

SpecLoad == InitLoad /\ [][NextLoad]_vars

-----------------------------------------------------------------------------
(* The file credential store under sequences of set, delete and get.       *)

\* set and delete operations after which the model stops
MaxOps == 3

StoreProfiles == {None, Some("default"), Some("work"), Some("..")}
StoreTokens == { <<>>, <<" ">>, T_file \o <<"\n">>, T_work }

\* what an operation of the store returned
Returned(op, profile, r) ==
    [status |-> IF r.ok THEN "ok" ELSE "error", err |-> r.err,
     detail |-> Some([op |-> op, profile |-> profile,
                      value |-> IF op = "get" /\ r.ok THEN r.val ELSE None])]

InitToken ==
    /\ size = SizeIdle
    /\ macos = FALSE
    /\ env = NoEnv
    /\ cfgfile = None
    /\ filestore = NoStore
    /\ keychain = NoStore
    /\ cli = NoCli
    /\ stdin = Terminal
    /\ stdout_tty = TRUE
    /\ pc = "token"
    /\ resolved = NoSettings
    /\ payload = NoPayload
    /\ result = Running
    /\ calls = <<>>
    /\ events = <<>>
    /\ search = NoResults

\* token::set_token(profile, token)
TokenSet ==
    /\ pc = "token"
    /\ Len(events) < MaxOps
    /\ \E profile \in StoreProfiles, token \in StoreTokens :
         LET r == token_set_token(profile, token)
         IN  /\ filestore' = IF r.ok THEN r.val ELSE filestore
             /\ events' = Append(events, [op |-> "set", profile |-> profile,
                                          token |-> token, ok |-> r.ok])
             /\ result' = Returned("set", profile, r)
    /\ UNCHANGED <<size, macos, env, cfgfile, keychain, cli, stdin, stdout_tty, pc,
                   resolved, payload, calls, search>>

\* token::delete_token(profile)
TokenDelete ==
    /\ pc = "token"
    /\ Len(events) < MaxOps
    /\ \E profile \in StoreProfiles :
         LET r == token_delete_token(profile)
         IN  /\ filestore' = IF r.ok THEN r.val ELSE filestore
             /\ events' = Append(events, [op |-> "delete", profile |-> profile,
                                          token |-> <<>>, ok |-> r.ok])
             /\ result' = Returned("delete", profile, r)
    /\ UNCHANGED <<size, macos, env, cfgfile, keychain, cli, stdin, stdout_tty, pc,
                   resolved, payload, calls, search>>

\* token::get_token(profile)
TokenGet ==
    /\ pc = "token"
    /\ \E profile \in StoreProfiles :
         result' = Returned("get", profile, token_get_token(profile))
    /\ UNCHANGED <<size, macos, env, cfgfile, filestore, keychain, cli, stdin, stdout_tty,
                   pc, resolved, payload, calls, events, search>>

NextToken == TokenSet \/ TokenDelete \/ TokenGet

SpecToken == InitToken /\ [][NextToken]_vars

-----------------------------------------------------------------------------
(* Properties of the size functions (SpecSize).                            *)

SizeUnits ==
    { <<>>, <<"B">>, <<"K">>, <<"K","B">>, <<"M">>, <<"M","B">>, <<"G">>, <<"G","B">> }

UnitFactor(u) ==
    IF u \in {<<>>, <<"B">>} THEN 1
    ELSE IF u \in {<<"K">>, <<"K","B">>} THEN 1024
    ELSE IF u \in {<<"M">>, <<"M","B">>} THEN 1024 * 1024
    ELSE 1024 * 1024 * 1024

\* the number part of a size string: everything before its first letter
LeadLen(t) == Cardinality({ k \in DOMAIN t : \A j \in 1..k : ~IsAsciiAlphabetic(t[j]) })
NumberPart(s) == LET t == Trim(s) IN Trim(SubSeq(t, 1, LeadLen(t)))
UnitPart(s) == LET t == Trim(s) IN ToAsciiUppercase(Trim(SubSeq(t, LeadLen(t) + 1, Len(t))))

\* s is <number><unit>: a decimal number, then one of the eight units in any case
HasSizeForm(s) == ParseF64(NumberPart(s)).ok /\ UnitPart(s) \in SizeUnits

\* number x multiplier truncated toward zero, where the product fits 32 bits
ProductFits(s) == ParseF64(NumberPart(s)).mant <= MaxBytes \div UnitFactor(UnitPart(s))
TruncatedProduct(s) ==
    LET num == ParseF64(NumberPart(s))
        t   == (num.mant * UnitFactor(UnitPart(s))) \div Pow10(num.dec)
    IN  IF num.neg THEN 0 - t ELSE t

SizeParsedString == size.pc = "parsed" /\ IsSome(size.str)

\* what C7 says of acceptance, of the errors and of the absent size
C7_AcceptanceAndErrors ==
    /\ SizeParsedString =>
          LET s == Unwrap(size.str) IN
            /\ size.parsed.ok <=> HasSizeForm(s)
            /\ ~ParseF64(NumberPart(s)).ok
                  => size.parsed.err = "invalid number in file size"
            /\ ParseF64(NumberPart(s)).ok /\ UnitPart(s) \notin SizeUnits
                  => size.parsed.err = "unknown file size unit"
    /\ size.pc = "parsed" /\ size.str = None
          => size.parsed.ok /\ size.parsed.val = 104857600
    /\ size.pc = "parsed" /\ size.str \in {Some(<<"1",".","5","M","B">>), Some(<<"1",".","5","m","b">>)}
          => size.parsed.ok /\ size.parsed.val = 1572864
    /\ size.pc = "parsed" /\ size.str = Some(<<"1",".","5","G","B">>)
          => size.parsed.ok /\ size.parsed.val = 1610612736

ChosenUnit(n) == IF n >= GB THEN GB ELSE IF n >= MB THEN MB ELSE IF n >= KB THEN KB ELSE 1

Abs(x) == IF x < 0 THEN 0 - x ELSE x

SizeReparsed == size.pc \in {"reparsed", "reformatted"}

\* the one-decimal rounding of n reaches 1024.0 of its unit, which is 1.0 of the next
RoundsToNextUnit(n) ==
    \/ KB <= n /\ n < MB /\ MB - n < KB /\ 20 * (MB - n) < KB
    \/ MB <= n /\ n < GB /\ GB - n < MB /\ 20 * (GB - n) < MB

\* C8 as stated: for every byte count n, parse_file_size(format_size(n))
\* succeeds with a value at most 0.05 of the chosen unit away from n, and
\* format_size(parse_file_size(format_size(n))) = format_size(n).
C8_Original ==
    /\ SizeReparsed =>
          /\ size.reparsed.ok
          /\ 20 * Abs(size.reparsed.val - size.bytes) <= ChosenUnit(size.bytes)
    /\ size.pc = "reformatted" => size.reformatted = size.formatted

\* C8 as amended: for every byte count n, parse_file_size(format_size(n))
\* succeeds with a value less than 0.05 of the chosen unit plus one byte away
\* from n (the parse truncates), and formatting that value gives format_size(n)
\* again unless n rounds to 1024.0 of its unit (KB or MB), where format_size(n)
\* is "1024.0KB" or "1024.0MB" and the value formats as "1.0MB" or "1.0GB".
C8_RoundTrip ==
    /\ SizeReparsed =>
          /\ size.reparsed.ok
          /\ 20 * (Abs(size.reparsed.val - size.bytes) - 1) < ChosenUnit(size.bytes)
    /\ size.pc = "reformatted" =>
          IF RoundsToNextUnit(size.bytes)
          THEN /\ size.formatted \in { <<"1","0","2","4",".","0","K","B">>,
                                        <<"1","0","2","4",".","0","M","B">> }
               /\ size.reformatted \in { <<"1",".","0","M","B">>, <<"1",".","0","G","B">> }
               /\ size.reparsed.val = 1024 * ChosenUnit(size.bytes)
          ELSE size.reformatted = size.formatted

\* a byte count that is not a multiple of a tenth has made the round trip
C8_Witness ==
    /\ size.pc = "reformatted"
    /\ size.bytes = 1500
    /\ size.reparsed.val = 1536
    /\ size.reformatted = <<"1",".","5","K","B">>

-----------------------------------------------------------------------------
(* Properties of settings resolution (SpecResolve).                        *)

Config == Unwrap(cfgfile)

\* main took the layered send path: load_config, then resolve
LayeredSend == events = <<"load_config", "resolve">>
\* main took the headless send path: resolve_from_env alone
HeadlessSend == events = <<"resolve_from_env">>
\* a resolver returned a record
Resolved == resolved # NoSettings

EnvTokenSet == env.TOKEN \notin {None, Some(<<>>)}
ProfileKnown ==
    SelectedProfile = None \/ Unwrap(SelectedProfile) \in DOMAIN Config.profiles
SelectedSection ==
    IF IsSome(SelectedProfile) THEN Config.profiles[Unwrap(SelectedProfile)] ELSE NoSection

\* the value of field f a reader of the file expects: the profile's, else the default's
Chosen(f) == IF IsSome(SelectedSection[f]) THEN SelectedSection[f] ELSE Config.default[f]

\* the byte counts of the configured size strings, worked out by hand; -1: not a size
ExpectedBytes(s) ==
    CASE s = None -> 104857600
      [] s = Some(<<"1", "K", "B">>) -> 1024
      [] s = Some(<<"2", "M">>) -> 2097152
      [] OTHER -> -1

\* C1: in a layered send with a known profile (or none) and a credential, each of
\* channel, max_file_size and confirm is the profile's value when the profile has
\* the field and the default's otherwise: an absent or empty chosen channel is
\* "channel is not configured" whatever the other section holds, a chosen size
\* that does not parse is an error, and otherwise the record carries exactly the
\* chosen values (confirm = false of the profile beats true of the default).
C1_ProfileOverDefault ==
    (LayeredSend /\ EnvTokenSet /\ ProfileKnown) =>
        IF Chosen("channel") \in {None, Some("")}
        THEN ~Resolved /\ result = Failed("channel is not configured")
        ELSE IF ExpectedBytes(Chosen("max_file_size")) < 0
        THEN ~Resolved /\ result.status = "error"
        ELSE /\ Resolved
             /\ resolved.channel = Unwrap(Chosen("channel"))
             /\ resolved.max_file_size = ExpectedBytes(Chosen("max_file_size"))
             /\ resolved.confirm = (Chosen("confirm") = Some(TRUE))

\* profile "work" sets confirm = false and a size, leaves the channel to the default
C1_Witness ==
    /\ LayeredSend /\ Resolved
    /\ SelectedProfile = Some("work")
    /\ Config.default.confirm = Some(TRUE)
    /\ SelectedSection.confirm = Some(FALSE)
    /\ resolved.confirm = FALSE
    /\ SelectedSection.channel = None
    /\ resolved.channel = C_general
    /\ Config.default.max_file_size = Some(<<"1", "K", "B">>)
    /\ SelectedSection.max_file_size = Some(<<"2", "M">>)
    /\ resolved.max_file_size = 2 * MB

\* main took the layered search path as far as the credential
LayeredSearch ==
    /\ Len(events) >= 2
    /\ events[1] = "load_config"
    /\ "resolve_token" \in Range(events)

C3_ProfileNotFound ==
    (/\ pc # "main"
     /\ ~Headless
     /\ EnvTokenSet
     /\ cli.command \in {"send", "search"}
     /\ load_config.ok
     /\ IsSome(SelectedProfile)
     /\ Unwrap(SelectedProfile) \notin DOMAIN load_config.val.profiles)
        => result = Failed("profile not found in config")

\* the store the credential is expected from, and what it holds for the profile
ExpectedStore ==
    IF Config.default.token_store \in {Some(S_file), Some(<<"F", "I", "L", "E">>)}
    THEN "file"
    ELSE IF Config.default.token_store = Some(S_keychain) THEN "keychain"
    ELSE IF macos THEN "keychain" ELSE "file"
Account == IF IsSome(SelectedProfile) THEN Unwrap(SelectedProfile) ELSE "default"
Held(store) == IF Account \in DOMAIN store THEN store[Account] ELSE None
ExpectedStored ==
    IF ExpectedStore = "file"
    THEN IF \E t \in {T_file, T_work} : Held(filestore) \in {Some(t), Some(t \o <<"\n">>)}
         THEN Some(CHOOSE t \in {T_file, T_work} :
                        Held(filestore) \in {Some(t), Some(t \o <<"\n">>)})
         ELSE None
    ELSE IF macos THEN Held(keychain) ELSE None
\* the file store refuses to look a name like ".." up
LookupPossible == ExpectedStore = "file" => Account # ".."

TokenErrors == {"token is not configured", "invalid profile name", "invalid token_store"}

\* C5: where resolve_token ran (layered send or search), a set and non-empty
\* SLAFLING_TOKEN is the credential whatever the store holds; otherwise the
\* credential is the one the configured store (token_store, else the platform's)
\* holds for the profile, and "token is not configured" when it holds none.
C5_CredentialPriority ==
    ((LayeredSend \/ LayeredSearch) /\ (EnvTokenSet \/ LookupPossible)) =>
        IF EnvTokenSet
        THEN /\ result.err \notin TokenErrors
             /\ Resolved => resolved.token = Unwrap(env.TOKEN)
        ELSE IF ExpectedStored = None
        THEN ~Resolved /\ result = Failed("token is not configured")
        ELSE /\ result.err \notin TokenErrors
             /\ Resolved => resolved.token = Unwrap(ExpectedStored)

\* an empty SLAFLING_TOKEN is passed over for the token of the file store
C5_Witness ==
    /\ LayeredSend /\ Resolved
    /\ env.TOKEN = Some(<<>>)
    /\ ExpectedStore = "file"
    /\ Held(filestore) = Some(T_file \o <<"\n">>)
    /\ Held(keychain) = Some(T_key)
    /\ resolved.token = T_file

\* the invocation is headless: the flag, or SLAFLING_HEADLESS in 1 / true / yes
ExpectHeadless ==
    \/ cli.headless
    \/ env.HEADLESS \in {Some(<<"1">>), Some(<<"T", "R", "U", "E">>), Some(<<"y", "e", "s">>)}

HeadlessEvents ==
    {"resolve_from_env", "resolve_token_from_env", "resolve_search_types_from_env"}

\* C6: a headless invocation never loads the configuration nor resolves through
\* it, and any other invocation never uses the environment resolvers; a headless
\* send fails at once without SLAFLING_TOKEN or SLAFLING_CHANNEL (unset or empty),
\* and otherwise its record is the two variables, the size limit of
\* SLAFLING_MAX_FILE_SIZE (100 MiB when unset or empty) and confirm = true exactly
\* for SLAFLING_CONFIRM in 1 / true / yes in any case.
C6_Headless ==
    /\ (pc # "main" /\ ExpectHeadless) =>
            \A i \in DOMAIN events : events[i] \in HeadlessEvents
    /\ (pc # "main" /\ ~ExpectHeadless) =>
            \A i \in DOMAIN events : events[i] \notin HeadlessEvents
    /\ (pc # "main" /\ ExpectHeadless /\ cli.command = "send") =>
            IF ~EnvTokenSet
            THEN ~Resolved /\ result = Failed("in headless mode, SLAFLING_TOKEN must be set")
            ELSE IF env.CHANNEL \in {None, Some("")}
            THEN ~Resolved /\ result = Failed("in headless mode, SLAFLING_CHANNEL must be set")
            ELSE IF env.MAX_FILE_SIZE = Some(<<"X", "B">>)
            THEN ~Resolved /\ result = Failed("in headless mode, invalid SLAFLING_MAX_FILE_SIZE")
            ELSE resolved =
                    [token |-> Unwrap(env.TOKEN),
                     channel |-> Unwrap(env.CHANNEL),
                     max_file_size |-> IF env.MAX_FILE_SIZE \in {None, Some(<<>>)}
                                       THEN 100 * 1024 * 1024 ELSE 1024,
                     confirm |-> env.CONFIRM \in {Some(<<"1">>), Some(<<"t", "r", "u", "e">>),
                                                  Some(<<"Y", "e", "s">>)}]

\* SLAFLING_HEADLESS=TRUE, no configuration file, Yes confirms, an empty size variable
C6_Witness ==
    /\ ~cli.headless
    /\ env.HEADLESS = Some(<<"T", "R", "U", "E">>)
    /\ cfgfile = None
    /\ HeadlessSend /\ Resolved
    /\ env.CONFIRM = Some(<<"Y", "e", "s">>)
    /\ resolved.confirm
    /\ env.MAX_FILE_SIZE = Some(<<>>)
    /\ resolved.max_file_size = DEFAULT_MAX_FILE_SIZE
    /\ resolved.channel = C_env
    /\ result = Done

-----------------------------------------------------------------------------
(* Properties of the send path (Spec).                                     *)

\* run_send_with_resolved was entered and has settled the payload or failed
PayloadSettled == Resolved /\ pc \notin {"main", "send"}

\* C9: when --text and --file are both given without a value, the send ends with
\* the error that both require stdin, nothing was read from stdin and no request
\* was made.
C9_AmbiguousStdin ==
    (PayloadSettled /\ cli.send.text = Some(<<>>) /\ cli.send.file = Some("")) =>
        /\ pc = "done"
        /\ result = Failed("both --text and --file require stdin; provide a value for at least one")
        /\ stdin.reads = <<>>
        /\ calls = <<>>

\* both flags without a value while a pipe holds "a" and a newline
C9_Witness ==
    /\ PayloadSettled
    /\ cli.send.text = Some(<<>>)
    /\ cli.send.file = Some("")
    /\ ~stdin.tty
    /\ stdin.content = <<"a", "\n">>
    /\ result.status = "error"
    /\ resolved.confirm

NoFlags == cli.send.text = None /\ cli.send.file = None
WhiteSpace == {" ", "\n", "\t", "\r"}

\* s without one trailing newline
WithoutNewline(s) ==
    IF s # <<>> /\ s[Len(s)] = "\n" THEN SubSeq(s, 1, Len(s) - 1) ELSE s

\* C10 as stated: with no flag and a pipe (of valid text) on stdin, the payload is
\* stdin with the trailing newline stripped and nothing else removed.
C10_Original ==
    (PayloadSettled /\ NoFlags /\ ~stdin.tty /\ ValidUtf8(stdin.content)) =>
        payload.text = Some(WithoutNewline(stdin.content))

\* C10: with neither flag, a terminal on stdin ends the send with the no-input
\* error, nothing read and no request made; a pipe is read once, as text, and the
\* payload is its content without ALL trailing white space (spaces and repeated
\* newlines too, leading and inner white space kept), with no file; bytes that are
\* not UTF-8 end the send in an error without a request.
C10_ImplicitText ==
    (PayloadSettled /\ NoFlags) =>
        IF stdin.tty
        THEN /\ result = Failed("no input provided (use -t, -f, or pipe via stdin)")
             /\ stdin.reads = <<>>
             /\ calls = <<>>
        ELSE IF ~ValidUtf8(stdin.content)
        THEN /\ result = Failed("stream did not contain valid UTF-8")
             /\ calls = <<>>
        ELSE /\ stdin.reads # <<>>
             /\ stdin.reads[1] = "read_to_string"
             /\ payload.file = None
             /\ \E k \in 0..Len(stdin.content) :
                    /\ payload.text = Some(SubSeq(stdin.content, 1, k))
                    /\ k > 0 => stdin.content[k] \notin WhiteSpace
                    /\ \A j \in (k + 1)..Len(stdin.content) :
                            stdin.content[j] \in WhiteSpace

\* " a b \n" on a pipe is posted as " a b"
C10_Witness ==
    /\ PayloadSettled /\ NoFlags
    /\ stdin.content = <<" ", "a", " ", "b", " ", "\n">>
    /\ payload.text = Some(<<" ", "a", " ", "b">>)
    /\ Len(calls) = 1
    /\ calls[1].text = Some(<<" ", "a", " ", "b">>)
    /\ result = Done

-----------------------------------------------------------------------------
(* Properties of the payload taken from stdin on request (Spec).           *)

\* exactly one of the two flags was given without a value
TextFromStdin == cli.send.text = Some(<<>>) /\ cli.send.file # Some("")
FileFromStdin == cli.send.file = Some("") /\ cli.send.text # Some(<<>>)

StdinNotAvailable ==
    {"--text requires stdin input but stdin is a terminal",
     "--file requires stdin input but stdin is a terminal"}

\* the path given to --file is one std::fs::read fails on
UnreadablePath == cli.send.file \notin {None, Some(""), Some("a.txt"), Some("dir/big.bin")}

\* t is s without its trailing white space
IsTrimmedEnd(t, s) ==
    \E k \in 0..Len(s) :
        /\ t = SubSeq(s, 1, k)
        /\ k > 0 => s[k] \notin WhiteSpace
        /\ \A j \in (k + 1)..Len(s) : s[j] \in WhiteSpace

\* C11 as stated: with one flag requesting stdin and stdin a terminal, the send
\* always fails with a stdin-not-available error and makes no request.
C11_Original ==
    (PayloadSettled /\ (TextFromStdin \/ FileFromStdin) /\ stdin.tty) =>
        (result.err \in StdinNotAvailable /\ calls = <<>>)

\* C11: with --text requesting stdin and the other flag's file (if any) readable,
\* a pipe is read once as text and the text is its content without trailing
\* white space, and a terminal is the error that --text requires stdin; with
\* --file requesting stdin, a pipe is read once as bytes and the file is exactly
\* those bytes under the name of --filename, and a terminal is the error that
\* --file requires stdin; a terminal is never read and no request follows these
\* errors.  A --file path that cannot be read is reported first, terminal or
\* not, as a file-read error, with stdin unread and no request.
C11_StdinOnRequest ==
    /\ (PayloadSettled /\ TextFromStdin) =>
            IF UnreadablePath
            THEN result = Failed("failed to read file") /\ stdin.reads = <<>> /\ calls = <<>>
            ELSE IF stdin.tty
            THEN /\ result = Failed("--text requires stdin input but stdin is a terminal")
                 /\ stdin.reads = <<>>
                 /\ calls = <<>>
            ELSE IF ~ValidUtf8(stdin.content)
            THEN result = Failed("stream did not contain valid UTF-8") /\ calls = <<>>
            ELSE /\ stdin.reads[1] = "read_to_string"
                 /\ IsSome(payload.text)
                 /\ IsTrimmedEnd(Unwrap(payload.text), stdin.content)
                 /\ IsSome(payload.file) = IsSome(cli.send.file)
    /\ (PayloadSettled /\ FileFromStdin) =>
            IF stdin.tty
            THEN /\ result = Failed("--file requires stdin input but stdin is a terminal")
                 /\ stdin.reads = <<>>
                 /\ calls = <<>>
            ELSE /\ stdin.reads[1] = "read_to_end"
                 /\ payload.file = Some([name |-> cli.send.filename, data |-> stdin.content])
                 /\ payload.text = cli.send.text

\* "hi" and a newline on a pipe with --text alone is posted as "hi"
C11_Witness ==
    /\ PayloadSettled /\ TextFromStdin
    /\ cli.send.file = None
    /\ stdin.content = <<"h", "i", "\n">>
    /\ payload.text = Some(<<"h", "i">>)
    /\ Len(calls) = 1
    /\ calls[1].text = Some(<<"h", "i">>)
    /\ result = Done

-----------------------------------------------------------------------------
(* Properties of dispatch, confirmation and the remote calls (Spec).       *)

\* the requests made so far to one endpoint
CallsTo(endpoint) == { i \in DOMAIN calls : calls[i].endpoint = endpoint }

\* C12: once a file is resolved, no chat.postMessage request is ever made and no
\* request carries the text as a message; the completeUploadExternal request
\* carries the resolved text as initial_comment exactly when a text was resolved
\* and is not empty, and no comment at all otherwise; a send that ends well has
\* made that request.
C12_FileWithCaption ==
    (pc \notin {"main", "send"} /\ IsSome(payload.file)) =>
        /\ CallsTo("chat.postMessage") = {}
        /\ \A i \in DOMAIN calls : calls[i].text = None
        /\ \A i \in DOMAIN calls :
              calls[i].comment =
                 IF /\ calls[i].endpoint = "files.completeUploadExternal"
                    /\ IsSome(payload.text)
                    /\ Unwrap(payload.text) # <<>>
                 THEN payload.text
                 ELSE None
        /\ result = Done => Cardinality(CallsTo("files.completeUploadExternal")) = 1

\* --text hi --file a.txt: a.txt is uploaded with the comment "hi"
C12_Witness ==
    /\ cli.send.text = Some(Hi)
    /\ cli.send.file = Some("a.txt")
    /\ payload.file = Some([name |-> "a.txt", data |-> <<"a">>])
    /\ result = Done
    /\ Len(calls) = 3
    /\ calls[3].endpoint = "files.completeUploadExternal"
    /\ calls[3].comment = Some(Hi)
    /\ calls[3].filename = Some("a.txt")

\* --text from an all-blank pipe with --file a.txt: the upload has no comment
C12_WitnessEmptyText ==
    /\ cli.send.file = Some("a.txt")
    /\ payload.text = Some(<<>>)
    /\ result = Done
    /\ calls[3].comment = None

UploadEndpoints == {"files.getUploadURLExternal", UploadUrl, "files.completeUploadExternal"}
UploadCalls == { i \in DOMAIN calls : calls[i].endpoint \in UploadEndpoints }

\* the errors run_send_with_resolved raises before it calls into slack.rs
BeforeDispatch ==
    {"no input provided (use -t, -f, or pipe via stdin)",
     "stream did not contain valid UTF-8",
     "both --text and --file require stdin; provide a value for at least one",
     "--file requires stdin input but stdin is a terminal",
     "--text requires stdin input but stdin is a terminal",
     "failed to read file",
     "confirm is enabled but stdin is not a TTY (pass -y to skip confirmation)",
     "aborted",
     "file size exceeds limit",
     "message is empty"}

\* C13: a send never calls both the post-text and the upload endpoints; when it is
\* about to post there is a non-empty text, no file and no request yet, and when
\* it is in an upload there is a file and no text was posted; a send that ended
\* past the checks of run_send_with_resolved has started exactly one of the two,
\* one that ended at those checks has made no request, and a send without payload
\* (no file, empty text) ends in an error without any request.
C13_OneDispatcher ==
    /\ CallsTo("chat.postMessage") = {} \/ UploadCalls = {}
    /\ Cardinality(CallsTo("chat.postMessage")) <= 1
    /\ pc = "post_message" =>
            (payload.file = None /\ payload.text \notin {None, Some(<<>>)} /\ calls = <<>>)
    /\ pc \in {"get_upload_url", "upload_file_content", "complete_upload"} =>
            (IsSome(payload.file) /\ CallsTo("chat.postMessage") = {})
    /\ (pc = "done" /\ Resolved /\ result.err \notin BeforeDispatch) =>
            /\ calls # <<>>
            /\ calls[1].endpoint = IF IsSome(payload.file) THEN "files.getUploadURLExternal"
                                   ELSE "chat.postMessage"
    /\ (pc = "done" /\ result.err \in BeforeDispatch) => calls = <<>>
    /\ (PayloadSettled /\ payload.file = None /\ payload.text \in {None, Some(<<>>)}) =>
            /\ calls = <<>>
            /\ pc \notin {"post_message", "get_upload_url"}
            /\ pc = "done" => result.status = "error"

\* a blank pipe and no flag: the confirmation was skipped and the send ended in
\* "message is empty" with no request
C13_WitnessNoPayload ==
    /\ PayloadSettled /\ NoFlags
    /\ stdin.content = <<" ", "\n">>
    /\ payload.text = Some(<<>>)
    /\ result = Failed("message is empty")
    /\ calls = <<>>

\* --text hi --file a.txt ended well: three upload requests, no message posted
C13_Witness ==
    /\ cli.send.text = Some(Hi)
    /\ cli.send.file = Some("a.txt")
    /\ pc = "done"
    /\ result = Done
    /\ Cardinality(UploadCalls) = 3
    /\ CallsTo("chat.postMessage") = {}

PayloadReads == {"read_to_string", "read_to_end"}

\* C14: stdin is read at most once in a send: a payload read (only from a pipe) or
\* the read of the answer to the prompt (only from a terminal), never both and
\* never two payload reads; and once a request has been made, every read the send
\* needed has already happened: a payload the flags take from stdin is in memory
\* whole (all bytes of a file, all text up to its trailing white space) and a
\* required confirmation has been answered.
C14_StdinReadOnce ==
    /\ Len(stdin.reads) <= 1
    /\ \A i \in DOMAIN stdin.reads :
            /\ stdin.reads[i] \in PayloadReads \cup {"read_line"}
            /\ stdin.reads[i] \in PayloadReads => ~stdin.tty
            /\ stdin.reads[i] = "read_line" => stdin.tty
    /\ (calls # <<>> /\ (NoFlags \/ TextFromStdin)) =>
            /\ stdin.reads = <<"read_to_string">>
            /\ IsTrimmedEnd(Unwrap(payload.text), stdin.content)
    /\ (calls # <<>> /\ FileFromStdin) =>
            /\ stdin.reads = <<"read_to_end">>
            /\ Unwrap(payload.file).data = stdin.content
    /\ (calls # <<>> /\ resolved.confirm /\ ~cli.send.yes) =>
            stdin.reads = <<"read_line">>

\* "hi" piped into a send that must be confirmed: read as payload, then refused
\* at the prompt, which is not read
C14_Witness ==
    /\ PayloadSettled /\ NoFlags
    /\ stdin.content = <<"h", "i", "\n">>
    /\ resolved.confirm /\ ~cli.send.yes
    /\ stdin.reads = <<"read_to_string">>
    /\ result = Failed("confirm is enabled but stdin is not a TTY (pass -y to skip confirmation)")
    /\ calls = <<>>

\* the prompt was shown and a line was read in answer
Prompted == PayloadSettled /\ stdin.reads = <<"read_line">>

\* the lines that are y or Y once the white space around them is taken off
AffirmativeLines ==
    {<<"y">>, <<"Y">>, <<"y", "\n">>, <<"Y", "\n">>, <<" ", "y", "\n">>}

\* the resolved file is larger than the resolved limit
TooLarge == IsSome(payload.file) /\ Len(Unwrap(payload.file).data) > resolved.max_file_size

\* the calls that open a send: the one of post_message, the first of an upload
OpeningCalls == CallsTo("chat.postMessage") \cup CallsTo("files.getUploadURLExternal")

\* C15 as stated: after an affirmative answer the network send is invoked exactly
\* once.
C15_Original ==
    (Prompted /\ stdin.content \in AffirmativeLines /\ pc = "done") =>
        Cardinality(OpeningCalls) = 1

\* C15: the prompt is shown only with confirm set and --yes absent; the answer is
\* accepted exactly when the line read, white space around it taken off, is y or
\* Y; any other line ends the send as "aborted" with no request; after an
\* accepted answer the send is never "aborted", and it is opened exactly once
\* (one chat.postMessage, or one upload) unless the file is larger than the limit,
\* which is found only after the answer and ends the send with no request.
C15_Confirmation ==
    /\ Prompted => (resolved.confirm /\ ~cli.send.yes /\ stdin.tty)
    /\ (Prompted /\ stdin.content \notin AffirmativeLines) =>
            (pc = "done" /\ result = Failed("aborted") /\ calls = <<>>)
    /\ (Prompted /\ stdin.content \in AffirmativeLines) =>
            /\ result.err # "aborted"
            /\ Cardinality(OpeningCalls) <= 1
            /\ pc = "done" =>
                  IF TooLarge
                  THEN result.err = "file size exceeds limit" /\ calls = <<>>
                  ELSE Cardinality(OpeningCalls) = 1

\* " y" and a newline at the prompt: the text is posted, once
C15_Witness ==
    /\ Prompted
    /\ stdin.content = <<" ", "y", "\n">>
    /\ cli.send.text = Some(Hi)
    /\ cli.send.file = None
    /\ result = Done
    /\ Len(calls) = 1
    /\ calls[1].endpoint = "chat.postMessage"

\* "yes" at the prompt: aborted
C15_WitnessDeclined ==
    /\ Prompted
    /\ stdin.content = <<"y", "e", "s", "\n">>
    /\ result = Failed("aborted")
    /\ calls = <<>>

ConfirmUnavailable == "confirm is enabled but stdin is not a TTY (pass -y to skip confirmation)"

\* the payload was resolved without error and the confirmation gate has acted
GatePassed ==
    /\ PayloadSettled
    /\ pc # "confirm"
    /\ result.err \notin
          {"no input provided (use -t, -f, or pipe via stdin)",
           "stream did not contain valid UTF-8",
           "both --text and --file require stdin; provide a value for at least one",
           "--file requires stdin input but stdin is a terminal",
           "--text requires stdin input but stdin is a terminal",
           "failed to read file"}

\* C16: with confirm set, --yes absent and stdin not a terminal, the gate ends the
\* send with the confirmation-unavailable error, no line is ever read in answer
\* and no request is ever made; with --yes or without confirm no line is read in
\* answer, and the gate lets the send through to the size and empty-message checks
\* whether stdin is a terminal or not (it ends neither as unavailable nor as
\* aborted).
C16_GateWithoutTerminal ==
    /\ (Resolved /\ resolved.confirm /\ ~cli.send.yes /\ ~stdin.tty) =>
            /\ calls = <<>>
            /\ \A i \in DOMAIN stdin.reads : stdin.reads[i] # "read_line"
            /\ pc \notin {"dispatch", "post_message", "get_upload_url",
                          "upload_file_content", "complete_upload"}
            /\ GatePassed => (pc = "done" /\ result = Failed(ConfirmUnavailable))
    /\ (Resolved /\ (cli.send.yes \/ ~resolved.confirm)) =>
            /\ \A i \in DOMAIN stdin.reads : stdin.reads[i] # "read_line"
            /\ result.err \notin {ConfirmUnavailable, "aborted"}
            /\ (GatePassed /\ pc = "done") =>
                  \/ calls # <<>>
                  \/ result.err \in {"file size exceeds limit", "message is empty"}

\* --text hi with confirm set, no --yes, stdin an unread pipe: unavailable
C16_Witness ==
    /\ cli.send.text = Some(Hi)
    /\ cli.send.file = None
    /\ ~cli.send.yes
    /\ resolved.confirm
    /\ ~stdin.tty
    /\ stdin.reads = <<>>
    /\ pc = "done"
    /\ result = Failed(ConfirmUnavailable)
    /\ calls = <<>>

\* the same with --yes: posted without a prompt, from a pipe
C16_WitnessSkipped ==
    /\ cli.send.text = Some(Hi)
    /\ cli.send.file = None
    /\ cli.send.yes
    /\ resolved.confirm
    /\ ~stdin.tty
    /\ stdin.reads = <<>>
    /\ result = Done
    /\ Len(calls) = 1

\* and with --yes on a terminal: the same outcome
C16_WitnessSkippedTerminal ==
    /\ cli.send.text = Some(Hi)
    /\ cli.send.file = None
    /\ cli.send.yes
    /\ resolved.confirm
    /\ stdin.tty
    /\ stdin.reads = <<>>
    /\ result = Done
    /\ Len(calls) = 1

\* C17: a resolved file longer than the resolved limit is never sent: no request
\* of any kind is made, the send never enters the upload, and unless the
\* confirmation gate ended it first it ends with the file-too-large error naming
\* both sizes; a resolved file no longer than the limit, one exactly as long
\* included, is never given that error, and once past the gate it is uploaded.
C17_SizeLimit ==
    (PayloadSettled /\ IsSome(payload.file)) =>
        LET len == Len(Unwrap(payload.file).data)
        IN  /\ len > resolved.max_file_size =>
                /\ calls = <<>>
                /\ pc \notin {"get_upload_url", "upload_file_content", "complete_upload"}
                /\ (pc = "done" /\ result.err \notin {ConfirmUnavailable, "aborted"}) =>
                      result = FailedWith("file size exceeds limit",
                                  <<format_size(len), format_size(resolved.max_file_size)>>)
            /\ len <= resolved.max_file_size =>
                /\ result.err # "file size exceeds limit"
                /\ (pc = "done" /\ result.err \notin {ConfirmUnavailable, "aborted"}) =>
                      /\ calls # <<>>
                      /\ calls[1].endpoint = "files.getUploadURLExternal"
                      /\ calls[1].length = Some(len)

\* --file dir/big.bin (3 bytes) --yes with a limit of 2: rejected, no request
C17_Witness ==
    /\ cli.send.file = Some("dir/big.bin")
    /\ cli.send.yes
    /\ resolved.max_file_size = 2
    /\ pc = "done"
    /\ IsSome(payload.file)
    /\ Len(Unwrap(payload.file).data) = 3
    /\ result.err = "file size exceeds limit"
    /\ calls = <<>>

\* two bytes piped into --file with a limit of 2: uploaded
C17_WitnessEqual ==
    /\ FileFromStdin
    /\ resolved.max_file_size = 2
    /\ PayloadSettled
    /\ IsSome(payload.file)
    /\ Len(Unwrap(payload.file).data) = 2
    /\ result = Done
    /\ Len(calls) = 3

\* the answer acquires a slot: ok is true and both upload_url and file_id are there
Acquires(resp) ==
    /\ resp.transport /\ resp.parses /\ resp.ok = "true"
    /\ IsSome(resp.upload_url) /\ IsSome(resp.file_id)

\* the answer to the request of a step lets upload_file_bytes go on
StepSucceeded(call) ==
    IF call.endpoint = "files.getUploadURLExternal" THEN Acquires(call.answer)
    ELSE IF call.endpoint = UploadUrl THEN call.answer.transport
    ELSE /\ call.answer.transport /\ call.answer.parses /\ call.answer.ok = "true"

UploadOrder == <<"files.getUploadURLExternal", UploadUrl, "files.completeUploadExternal">>

\* C18: the requests of an upload are a prefix of acquire, transfer, finalize (so
\* each step is attempted at most once, and in that order); every request but the
\* last was answered with success, a request answered with failure ends the send
\* in an error, and a send that has ended in an error makes no further request.
C18_UploadOrder ==
    [](IsSome(payload.file) =>
          /\ Len(calls) <= 3
          /\ \A i \in DOMAIN calls :
                /\ calls[i].endpoint = UploadOrder[i]
                /\ i < Len(calls) => StepSucceeded(calls[i])
                /\ ~StepSucceeded(calls[i]) => (pc = "done" /\ result.status = "error")
          /\ pc = "upload_file_content" => Len(calls) = 1
          /\ pc = "complete_upload" => Len(calls) = 2
          /\ (pc = "done" /\ result = Done) => Len(calls) = 3)
    /\ [][result.status = "error" => calls' = calls]_vars

\* the transfer failed after the slot was acquired: two requests, no finalize
C18_Witness ==
    /\ cli.send.file = Some("a.txt")
    /\ pc = "done"
    /\ Len(calls) = 2
    /\ Acquires(calls[1].answer)
    /\ calls[2].endpoint = UploadUrl
    /\ ~calls[2].answer.transport
    /\ result = Failed("failed to upload file content")

\* the slot was refused: one request
C18_WitnessRefused ==
    /\ cli.send.file = Some("a.txt")
    /\ pc = "done"
    /\ Len(calls) = 1
    /\ calls[1].answer = Body("false", Some("invalid_auth"))
    /\ result.status = "error"

\* the errors of the three steps of an upload, by the function that raises them
AcquireErrors ==
    {"failed to call files.getUploadURLExternal",
     "failed to parse getUploadURLExternal response",
     "Slack API error (getUploadURLExternal)",
     "missing upload_url in response",
     "missing file_id in response"}
TransferErrors == {"failed to upload file content"}
FinalizeErrors ==
    {"failed to call files.completeUploadExternal",
     "failed to parse completeUploadExternal response",
     "Slack API error (completeUploadExternal)"}

\* the slot the first request was answered with
AcquiredSlot ==
    [upload_url |-> Unwrap(calls[1].answer.upload_url),
     file_id |-> Unwrap(calls[1].answer.file_id)]

\* C19: an upload that ends with its first request failed (ok false, or ok true
\* with upload_url or file_id missing, or no usable answer) ends in an error of
\* get_upload_url: the API error with the service's code for ok false, the
\* missing-field error otherwise; one that ends with its second request failed
\* ends in the transfer error, one that ends with its third request failed (ok
\* false or no usable answer) in an error of complete_upload; the three sets of
\* errors are disjoint, so the error names the step; and in the second and third
\* case the first request was answered with a slot, which the send still holds
\* and which the later requests used (the transfer went to its URL, the finalize
\* named its file id).
C19_StepLocalized ==
    /\ AcquireErrors \cap TransferErrors = {}
    /\ AcquireErrors \cap FinalizeErrors = {}
    /\ TransferErrors \cap FinalizeErrors = {}
    /\ (IsSome(payload.file) /\ pc = "done" /\ calls # <<>>) =>
         LET last == calls[Len(calls)].answer
         IN  /\ Len(calls) = 1 =>
                  /\ result.status = "error"
                  /\ result.err \in AcquireErrors
                  /\ ~Acquires(last)
                  /\ payload.upload = None
                  /\ (last.parses /\ last.ok = "false") =>
                        result = FailedWith("Slack API error (getUploadURLExternal)",
                                            ErrorCode(last))
                  /\ (last.parses /\ last.ok = "true") =>
                        result.err = IF last.upload_url = None
                                     THEN "missing upload_url in response"
                                     ELSE "missing file_id in response"
             /\ Len(calls) = 2 =>
                  /\ result = Failed("failed to upload file content")
                  /\ ~last.transport
             /\ Len(calls) = 3 =>
                  /\ result.status = "error" <=> ~(last.parses /\ last.ok = "true")
                  /\ result.status = "error" => result.err \in FinalizeErrors
                  /\ (last.parses /\ last.ok = "false") =>
                        result = FailedWith("Slack API error (completeUploadExternal)",
                                            ErrorCode(last))
             /\ Len(calls) >= 2 =>
                  /\ Acquires(calls[1].answer)
                  /\ payload.upload = Some(AcquiredSlot)
                  /\ calls[2].endpoint = AcquiredSlot.upload_url
             /\ Len(calls) = 3 => calls[3].file_id = Some(AcquiredSlot.file_id)

\* the finalize was answered ok = false after the slot was acquired and the bytes
\* were transferred
C19_Witness ==
    /\ cli.send.file = Some("a.txt")
    /\ pc = "done"
    /\ Len(calls) = 3
    /\ calls[3].answer = Body("false", Some("channel_not_found"))
    /\ result = FailedWith("Slack API error (completeUploadExternal)", "channel_not_found")
    /\ payload.upload = Some([upload_url |-> UploadUrl, file_id |-> FileId])

\* the first answer was ok = true without a file id
C19_WitnessMissingFileId ==
    /\ cli.send.file = Some("a.txt")
    /\ pc = "done"
    /\ Len(calls) = 1
    /\ calls[1].answer = [Body("true", None) EXCEPT !.upload_url = Some(UploadUrl)]
    /\ result = Failed("missing file_id in response")

\* the transfer failed
C19_WitnessTransfer ==
    /\ cli.send.file = Some("")
    /\ pc = "done"
    /\ Len(calls) = 2
    /\ result = Failed("failed to upload file content")
    /\ payload.upload = Some([upload_url |-> UploadUrl, file_id |-> FileId])

\* C20: a text send makes at most one request, chat.postMessage with the bearer
\* token, the channel and the text, and exactly one once it has passed the checks
\* before it; the send ends well exactly when the answer parses and its ok is the
\* boolean true; an answer with ok = false ends it in the API error carrying the
\* service's error code; an answer whose ok is missing or not a boolean is an
\* error too; the code of an API error is the answer's error field, and
\* "unknown error" when the answer has none; no answer at all is the call error,
\* an answer that is not JSON the parse error; and after any of these the send is
\* over with that single request.
C20_PostMessage ==
    (PayloadSettled /\ payload.file = None) =>
        /\ Len(calls) <= 1
        /\ pc = "post_message" => calls = <<>>
        /\ calls # <<>> =>
             LET call == calls[1]
                 resp == call.answer
             IN  /\ pc = "done"
                 /\ call.endpoint = "chat.postMessage"
                 /\ call.bearer = Some(resolved.token)
                 /\ call.channel = Some(resolved.channel)
                 /\ call.text = payload.text
                 /\ result = Done <=> (resp.transport /\ resp.parses /\ resp.ok = "true")
                 /\ result.status \in {"ok", "error"}
                 /\ ~resp.transport => result = Failed("failed to call Slack API")
                 /\ (resp.transport /\ ~resp.parses) =>
                        result = Failed("failed to parse Slack API response")
                 /\ (resp.parses /\ resp.ok # "true") =>
                        result = FailedWith("Slack API error",
                                    IF resp.error = None THEN "unknown error"
                                    ELSE Unwrap(resp.error))
        /\ (pc = "done" /\ result.err \notin BeforeDispatch) => Len(calls) = 1

\* --text hi answered ok = false, channel_not_found
C20_Witness ==
    /\ cli.send.text = Some(Hi)
    /\ cli.send.file = None
    /\ pc = "done"
    /\ Len(calls) = 1
    /\ calls[1].answer = Body("false", Some("channel_not_found"))
    /\ result = FailedWith("Slack API error", "channel_not_found")

\* answered without an ok field and without an error field
C20_WitnessNoOk ==
    /\ cli.send.text = Some(Hi)
    /\ cli.send.file = None
    /\ pc = "done"
    /\ Len(calls) = 1
    /\ calls[1].answer = Body("absent", None)
    /\ result = FailedWith("Slack API error", "unknown error")

\* answered ok = true
C20_WitnessSent ==
    /\ cli.send.text = Some(Hi)
    /\ cli.send.file = None
    /\ pc = "done"
    /\ Len(calls) = 1
    /\ calls[1].answer = Body("true", None)
    /\ result = Done

-----------------------------------------------------------------------------
(* Properties of the remote calls of sends and searches (SpecRemote).      *)

\* the endpoints the code names itself
ApiEndpoints ==
    {"chat.postMessage", "files.getUploadURLExternal",
     "files.completeUploadExternal", "conversations.list"}

\* C21: every request to chat.postMessage, files.getUploadURLExternal,
\* files.completeUploadExternal and conversations.list carries the resolved
\* token as bearer; a request to any other address is the transfer of an upload,
\* goes to the upload_url the first answer gave, and carries no bearer.
C21_BearerOnlyToApi ==
    \A i \in DOMAIN calls :
        IF calls[i].endpoint \in ApiEndpoints
        THEN /\ calls[i].bearer = Some(resolved.token)
             /\ resolved.token # <<>>
        ELSE /\ calls[i].bearer = None
             /\ i = 2
             /\ calls[1].endpoint = "files.getUploadURLExternal"
             /\ Some(calls[i].endpoint) = calls[1].answer.upload_url
             /\ IsSome(calls[i].data)

\* an upload that ended well: bearer on the first and third request, none on the
\* transfer
C21_Witness ==
    /\ cli.command = "send"
    /\ result = Done
    /\ Len(calls) = 3
    /\ calls[1].bearer = Some(T_env)
    /\ calls[2].endpoint = UploadUrl
    /\ calls[2].bearer = None
    /\ calls[3].bearer = Some(T_env)

\* a search over two pages: bearer on both requests
C21_WitnessSearch ==
    /\ cli.command = "search"
    /\ Len(calls) = 2
    /\ calls[1].endpoint = "conversations.list"
    /\ calls[1].bearer = Some(T_env)
    /\ calls[2].bearer = Some(T_env)
    /\ calls[2].cursor = Some("c1")

-----------------------------------------------------------------------------
(* Properties of the search (SpecSearch).                                  *)

\* the channels of all answers so far, in the order they were served
RECURSIVE PagesConcatenated(_)
PagesConcatenated(cs) ==
    IF cs = <<>> THEN <<>>
    ELSE PagesConcatenated(SubSeq(cs, 1, Len(cs) - 1)) \o cs[Len(cs)].answer.channels

\* the channel's lower-cased name holds the lower-cased query
MatchesQuery(ch) ==
    LET name == [i \in DOMAIN ch.name |-> ToLowerChar(ch.name[i])]
        q == [i \in DOMAIN cli.search.query |-> ToLowerChar(cli.search.query[i])]
    IN  \E i \in 0..(Len(name) - Len(q)) : SubSeq(name, i + 1, i + Len(q)) = q

\* the search returned its list: every request was answered with a page
SearchReturned ==
    /\ cli.command = "search"
    /\ pc = "done"
    /\ calls # <<>>
    /\ \A i \in DOMAIN calls : calls[i].answer.parses /\ calls[i].answer.ok = "true"

WithName(s, name) == SelectSeq(s, LAMBDA ch : ch.name = name)

\* C22: the list a search returns is the filtered concatenation of all pages
\* served, stably sorted by name: it is in ascending byte order of names, and for
\* every name its channels are exactly the matching channels of that name of the
\* concatenated pages, as many and in the same order (none dropped, none
\* duplicated, equal names in page order).
C22_PagesMerged ==
    SearchReturned =>
        LET all == SelectSeq(PagesConcatenated(calls), MatchesQuery)
            out == search.results
        IN  /\ Len(out) = Len(all)
            /\ \A i \in 1..(Len(out) - 1) : ~StrLess(out[i + 1].name, out[i].name)
            /\ \A ch \in Range(all) \cup Range(out) :
                  WithName(out, ch.name) = WithName(all, ch.name)

\* two pages linked by the cursor c1, query B: b (C3), aB, then b (C1) come back
\* as aB, b (C3), b (C1)
C22_Witness ==
    /\ SearchReturned
    /\ cli.search.query = <<"B">>
    /\ Len(calls) = 2
    /\ calls[1].answer = Page(<<Ch(<<"b">>, "C3"), Ch(<<"a", "B">>, "C4")>>, Some("c1"))
    /\ calls[2].answer.channels = <<Ch(<<"b">>, "C1"), Ch(<<"A">>, "C2")>>
    /\ search.results = <<Ch(<<"a", "B">>, "C4"), Ch(<<"b">>, "C3"), Ch(<<"b">>, "C1")>>

\* the search found no channel and ended the process itself
NoMatches == cli.command = "search" /\ pc = "done" /\ result.status = "exit"

\* C23: every search that ends in an error exits non-zero, and a search without
\* matches exits with a status that is neither zero nor the status of an error.
C23_NoMatchStatus ==
    /\ (pc = "done" /\ result.status = "error") => ExitStatus(result) # 0
    /\ NoMatches =>
          /\ ExitStatus(result) # 0
          /\ ExitStatus(result) # ExitStatus(Failed("failed to call conversations.list"))
          /\ ExitStatus(result) # ExitStatus(Failed("token is not configured"))

-----------------------------------------------------------------------------
(* Properties of configuration loading (SpecLoad).                         *)

\* the value, lower-cased, is none of the words
Unknown(value, words) == [i \in DOMAIN value |-> ToLowerChar(value[i])] \notin words

\* the section holds an output format or a search type that is not a known one
UnknownInSection(sec) ==
    \/ /\ sec.output # None
       /\ Unknown(sec.output[1], {<<"t","a","b","l","e">>, <<"t","s","v">>, <<"j","s","o","n">>})
    \/ /\ sec.search_types # None
       /\ \E i \in DOMAIN sec.search_types[1] :
             Unknown(sec.search_types[1][i],
                     {<<"p","u","b","l","i","c","_","c","h","a","n","n","e","l">>,
                      <<"p","r","i","v","a","t","e","_","c","h","a","n","n","e","l">>,
                      <<"i","m">>, <<"m","p","i","m">>})

\* the sections of the configuration file that hold an unknown value, as errors
\* name them
OffendingSections ==
    LET c == cfgfile[1]
    IN  (IF \/ UnknownInSection(c.default)
            \/ /\ c.default.token_store # None
               /\ Unknown(c.default.token_store[1],
                          {<<"k","e","y","c","h","a","i","n">>, <<"f","i","l","e">>})
         THEN {"default"} ELSE {})
        \cup { "profiles." \o n : n \in { m \in DOMAIN c.profiles :
                                              UnknownInSection(c.profiles[m]) } }

\* no section sets an output format, a search type or a credential store
EnumsAbsent ==
    LET c == cfgfile[1]
    IN  /\ c.default.output = None /\ c.default.search_types = None
        /\ c.default.token_store = None
        /\ \A n \in DOMAIN c.profiles :
              c.profiles[n].output = None /\ c.profiles[n].search_types = None

\* C24: a configuration with an unknown output format, search type or credential
\* store in its default section or in any profile, selected or not, is rejected
\* by every command: the invocation ends in an error that names a section
\* holding such a value, and it has resolved no settings and made no remote call;
\* a configuration whose values are all known (compared without regard to case),
\* or all absent, is loaded.
C24_LoadRejects ==
    (cfgfile # None /\ pc # "main") =>
        IF OffendingSections # {}
        THEN /\ pc = "done"
             /\ result.status = "error"
             /\ result.err \in {"invalid output", "invalid search_types",
                                "invalid token_store"}
             /\ result.detail # None
             /\ result.detail[1] \in OffendingSections
             /\ events = <<"load_config">>
             /\ resolved = NoSettings
             /\ calls = <<>>
        ELSE /\ result.err \notin {"invalid output", "invalid search_types",
                                   "invalid token_store"}
             /\ (macos \/ cfgfile[1].default.token_store # Some(S_keychain)) =>
                   \/ cli.command = "validate" /\ result = Done
                   \/ Len(events) >= 2
             /\ EnumsAbsent => (cli.command = "validate" => result = Done)

\* --profile work, and the profile old, which is not selected, sets output = xml:
\* the send is rejected naming profiles.old
C24_Witness ==
    /\ cli.command = "send"
    /\ cli.profile = Some("work")
    /\ cfgfile # None
    /\ OffendingSections = {"profiles.old"}
    /\ pc = "done"
    /\ result = FailedWith("invalid output", "profiles.old")
    /\ calls = <<>>

\* all values known, in upper case: the send goes through
C24_WitnessAccepted ==
    /\ cli.command = "send"
    /\ cfgfile # None
    /\ cfgfile[1].default.output = Some(<<"J", "S", "O", "N">>)
    /\ cfgfile[1].default.token_store = Some(<<"F", "I", "L", "E">>)
    /\ OffendingSections = {}
    /\ result = Done
    /\ Len(calls) = 1

\* nothing set at all: validate says ok
C24_WitnessAbsent ==
    /\ cli.command = "validate"
    /\ cfgfile # None
    /\ EnumsAbsent
    /\ result = Done

-----------------------------------------------------------------------------
(* Properties of the file credential store (SpecToken).                    *)

\* the file a profile's credential is kept in
KeyOf(profile) == IF profile = None THEN "default" ELSE profile[1]

\* the profiles whose name is accepted as a file name
Storable == { p \in StoreProfiles : KeyOf(p) # ".." }

\* the last set or delete that was carried out on the profile's key: 0 for none
LastOp(profile) ==
    LET on == { i \in DOMAIN events : events[i].ok /\ KeyOf(events[i].profile) = KeyOf(profile) }
    IN  IF on = {} THEN 0 ELSE CHOOSE i \in on : \A j \in on : j <= i

\* white space only, or nothing
Blank(token) == \A i \in DOMAIN token : token[i] \in {" ", "\t", "\n", "\r"}

\* C25 as stated: get returns the value of the most recent set when that value is
\* not empty after trimming and no delete followed.
C25_Original ==
    \A p \in Storable :
        (/\ result.status = "ok"
         /\ result.detail[1].op = "get"
         /\ result.detail[1].profile = p
         /\ LastOp(p) # 0
         /\ events[LastOp(p)].op = "set"
         /\ ~Blank(events[LastOp(p)].token))
            => result.detail[1].value = Some(events[LastOp(p)].token)

\* what get is to return for the profile after the operations so far
StoredFor(profile) ==
    IF LastOp(profile) = 0 THEN None
    ELSE LET last == events[LastOp(profile)]
         IN  IF last.op = "delete" \/ Blank(last.token) THEN None
             ELSE Some(Trim(last.token))

\* C25: after any sequence of set and delete, get(p) returns the token of the
\* most recent set on p's key with the white space around it removed, when that
\* token is not blank and no delete on the key followed, and none when the key
\* was never set, was last deleted or was last set to a blank token; every delete
\* on an acceptable name succeeds, stored or not; and since the value depends
\* only on the operations on p's own key ("default" for no profile), a set or
\* delete on another key changes nothing for p. An unacceptable name fails in
\* each operation and changes no file.
C25_StoreRoundTrip ==
    /\ \A p \in Storable : token_get_token(p) = Ok(StoredFor(p))
    /\ (result.status # "running" /\ result.detail[1].profile \in Storable) =>
          /\ result.status = "ok"
          /\ result.detail[1].op = "get" =>
                result.detail[1].value = StoredFor(result.detail[1].profile)
    /\ (result.status # "running" /\ result.detail[1].profile \notin Storable) =>
          /\ result.status = "error"
          /\ result.err = "invalid profile name"
    /\ \A i \in DOMAIN events : events[i].ok <=> events[i].profile \in Storable

\* set(work, xw), delete(default) where nothing is stored, then get(work) = xw
C25_Witness ==
    /\ Len(events) = 2
    /\ events[1] = [op |-> "set", profile |-> Some("work"), token |-> T_work, ok |-> TRUE]
    /\ events[2] = [op |-> "delete", profile |-> None, token |-> <<>>, ok |-> TRUE]
    /\ result = [status |-> "ok", err |-> "none",
                 detail |-> Some([op |-> "get", profile |-> Some("work"),
                                  value |-> Some(T_work)])]

\* set(default, xf and a newline), then get(no profile) = xf
C25_WitnessTrimmed ==
    /\ Len(events) = 1
    /\ events[1].op = "set"
    /\ events[1].profile = Some("default")
    /\ events[1].token = T_file \o <<"\n">>
    /\ result.status = "ok"
    /\ result.detail[1] = [op |-> "get", profile |-> None, value |-> Some(T_file)]

-----------------------------------------------------------------------------
(* Properties of sends that take their payload from stdin (Spec).          *)

\* the flags take the text or the file bytes from stdin
PayloadFromStdin ==
    NoFlags \/ cli.send.text = Some(<<>>) \/ cli.send.file = Some("")

\* the errors of the payload stage that are raised without reading stdin
UnreadErrors ==
    {"no input provided (use -t, -f, or pipe via stdin)",
     "both --text and --file require stdin; provide a value for at least one",
     "--file requires stdin input but stdin is a terminal",
     "--text requires stdin input but stdin is a terminal",
     "failed to read file"}

\* C26: with confirm set and --yes absent, a send whose text or file bytes come
\* from stdin never makes a request and never gets past the confirmation gate;
\* it ends in an error, raised either while the payload is resolved or by the
\* gate as "stdin is not a TTY"; on a terminal it is a payload error and nothing
\* was read; when the gate raises it, stdin was a pipe, the payload had been read
\* from it (once, to its end) before, and no answer was read.
C26_StdinPayloadNeverConfirmed ==
    (Resolved /\ resolved.confirm /\ ~cli.send.yes /\ PayloadFromStdin) =>
        /\ calls = <<>>
        /\ pc \in {"send", "confirm", "done"}
        /\ pc = "done" =>
              /\ result.status = "error"
              /\ result.err \in UnreadErrors
                                \cup {"stream did not contain valid UTF-8", ConfirmUnavailable}
              /\ stdin.tty => (result.err \in UnreadErrors /\ stdin.reads = <<>>)
              /\ result.err \in UnreadErrors => stdin.reads = <<>>
              /\ result.err = ConfirmUnavailable =>
                    /\ ~stdin.tty
                    /\ stdin.reads \in {<<"read_to_string">>, <<"read_to_end">>}
                    /\ IsSome(payload.text) \/ IsSome(payload.file)

\* two bytes piped into --file, confirm set: the bytes are read, then the gate
\* refuses
C26_Witness ==
    /\ Resolved /\ resolved.confirm /\ ~cli.send.yes
    /\ FileFromStdin
    /\ cli.send.text = None
    /\ stdin.content = <<"a", "a">>
    /\ stdin.reads = <<"read_to_end">>
    /\ payload.file # None
    /\ payload.file[1].data = <<"a", "a">>
    /\ pc = "done"
    /\ result = Failed(ConfirmUnavailable)
    /\ calls = <<>>

\* --text from stdin on a terminal, confirm set: refused before any read
C26_WitnessTerminal ==
    /\ Resolved /\ resolved.confirm /\ ~cli.send.yes
    /\ TextFromStdin
    /\ cli.send.file = None
    /\ stdin.tty
    /\ stdin.reads = <<>>
    /\ pc = "done"
    /\ result.err = "--text requires stdin input but stdin is a terminal"

\* a send of text alone whose payload was resolved to the empty text
EmptyTextOnly == PayloadSettled /\ payload.file = None /\ payload.text = Some(<<>>)

\* C27 as stated: a text-only send whose resolved text is empty fails with
\* "message is empty".
C27_Original ==
    (EmptyTextOnly /\ pc = "done") => result = Failed("message is empty")

\* C27: a text-only send whose resolved text is empty never calls
\* chat.postMessage; its text was read from a pipe that held white space only;
\* it ends with "message is empty" when confirm is unset or --yes is given, and
\* with the gate's "stdin is not a TTY" error when confirmation is required, the
\* gate coming first; no answer is ever read in such a send, and no send that
\* ends with "message is empty" has prompted.
C27_EmptyMessage ==
    /\ EmptyTextOnly =>
          /\ calls = <<>>
          /\ pc \notin {"post_message", "get_upload_url"}
          /\ ~stdin.tty
          /\ stdin.reads = <<"read_to_string">>
          /\ \A i \in DOMAIN stdin.content : stdin.content[i] \in {" ", "\n"}
          /\ pc = "done" =>
                result = IF resolved.confirm /\ ~cli.send.yes
                         THEN Failed(ConfirmUnavailable)
                         ELSE Failed("message is empty")
    /\ result.err = "message is empty" =>
          /\ EmptyTextOnly
          /\ \A i \in DOMAIN stdin.reads : stdin.reads[i] # "read_line"

\* --text from a pipe holding a newline, --yes: "message is empty", no request
C27_Witness ==
    /\ TextFromStdin
    /\ cli.send.file = None
    /\ cli.send.yes
    /\ resolved.confirm
    /\ stdin.content = <<"\n">>
    /\ EmptyTextOnly
    /\ pc = "done"
    /\ result = Failed("message is empty")
    /\ calls = <<>>

\* the same without --yes: the gate's error comes first
C27_WitnessGateFirst ==
    /\ TextFromStdin
    /\ cli.send.file = None
    /\ ~cli.send.yes
    /\ resolved.confirm
    /\ stdin.content = <<"\n">>
    /\ EmptyTextOnly
    /\ pc = "done"
    /\ result = Failed(ConfirmUnavailable)

-----------------------------------------------------------------------------
(* Properties of the paging of search_channels (SpecSearch).              *)

\* the answer parsed with ok=true and carries a non-empty next_cursor
CarriesCursor(resp) ==
    /\ resp.transport
    /\ resp.parses
    /\ resp.ok = "true"
    /\ resp.next_cursor \notin {None, Some("")}

Searching == cli.command = "search" /\ calls # <<>>

LastAnswer == calls[Len(calls)].answer

\* C28: the first conversations.list request carries no cursor and every later
\* one carries the non-empty next_cursor of the answer before it; the loop is
\* still turning exactly when the last answer carried a non-empty next_cursor,
\* and has ended otherwise: after the first answer whose cursor is absent or
\* empty it ended without an error of the service, and an answer with ok=false
\* ended it with the Slack API error, that request being the last.
C28_Paging ==
    Searching =>
        /\ calls[1].cursor = None
        /\ \A i \in 2..Len(calls) :
              /\ CarriesCursor(calls[i-1].answer)
              /\ calls[i].cursor = calls[i-1].answer.next_cursor
        /\ pc \in {"search", "done"}
        /\ pc = "search" <=> CarriesCursor(LastAnswer)
        /\ pc = "search" => result = Running
        /\ (LastAnswer.parses /\ LastAnswer.ok = "true" /\ ~CarriesCursor(LastAnswer)) =>
              result.status \in {"ok", "exit"}
        /\ (LastAnswer.parses /\ LastAnswer.ok # "true") =>
              /\ pc = "done"
              /\ result.err = "Slack API error (conversations.list)"

\* two pages followed by a page with an empty cursor: three requests, the second
\* and third passing the cursor served before, and the search has ended
C28_Witness ==
    /\ Searching
    /\ Len(calls) = 3
    /\ calls[1].answer.next_cursor = Some("c1")
    /\ calls[2].cursor = Some("c1")
    /\ calls[2].answer.next_cursor = Some("c2")
    /\ calls[3].cursor = Some("c2")
    /\ calls[3].answer.parses
    /\ calls[3].answer.ok = "true"
    /\ calls[3].answer.next_cursor = Some("")
    /\ pc = "done"
    /\ result.status \in {"ok", "exit"}

\* the service serves the same cursor again and again: the loop is still turning
\* after MaxRequests requests
C28_WitnessSameCursor ==
    /\ Searching
    /\ Len(calls) = MaxRequests
    /\ \A i \in DOMAIN calls : calls[i].answer.next_cursor = Some("c1")
    /\ \A i \in 2..Len(calls) : calls[i].cursor = Some("c1")
    /\ pc = "search"

\* ok=false on the second page: an error, and no third request
C28_WitnessRefused ==
    /\ Searching
    /\ Len(calls) = 2
    /\ calls[2].answer = Body("false", Some("invalid_auth"))
    /\ pc = "done"
    /\ result = FailedWith("Slack API error (conversations.list)", "invalid_auth")

-----------------------------------------------------------------------------
(* Properties of the output format of a search (SpecResolve).             *)

\* a search with a configuration file has resolved its settings
FormatResolved ==
    /\ cli.command = "search"
    /\ ~Headless
    /\ pc = "search"
    /\ IsSome(cfgfile)

FormatNames == {S_table, S_tsv, S_json}

\* the layers of the output format, highest priority first; a layer is None when
\* it is absent
FormatLayers ==
    LET config == Unwrap(cfgfile)
        name   == SelectedProfile
    IN  << cli.search.output,
           env.OUTPUT,
           IF IsSome(name) /\ Unwrap(name) \in DOMAIN config.profiles
           THEN config.profiles[Unwrap(name)].output ELSE None,
           config.default.output >>

AutoDetected == IF stdout_tty THEN S_table ELSE S_tsv

\* the layer names a format, in any letter case
NamesFormat(layer) == IsSome(layer) /\ ToLowercase(Unwrap(layer)) \in FormatNames

\* the first of the layers at the positions I, None when I is empty
FirstLayer(I) ==
    IF I = {} THEN None ELSE FormatLayers[CHOOSE i \in I : \A j \in I : i <= j]

PresentLayers == {i \in DOMAIN FormatLayers : IsSome(FormatLayers[i])}
ValidLayers == {i \in DOMAIN FormatLayers : NamesFormat(FormatLayers[i])}

\* C29 as stated: the format is that of the highest-priority layer that supplies
\* a valid format, and auto-detection when no layer does.
C29_Original ==
    FormatResolved =>
        resolved.format =
            IF IsSome(FirstLayer(ValidLayers))
            THEN ToLowercase(Unwrap(FirstLayer(ValidLayers)))
            ELSE AutoDetected

\* C29: the format of a search is decided by the highest-priority layer that is
\* present, in the order flag, environment, selected profile, default section:
\* it is that layer's format when the layer names one, auto-detection (table for
\* a terminal, tsv otherwise) when it names none, and auto-detection when no
\* layer is present; a layer of the configuration file that is present always
\* names a format.
C29_OutputPrecedence ==
    FormatResolved =>
        /\ resolved.format =
              IF NamesFormat(FirstLayer(PresentLayers))
              THEN ToLowercase(Unwrap(FirstLayer(PresentLayers)))
              ELSE AutoDetected
        /\ \A i \in {3, 4} : IsSome(FormatLayers[i]) => NamesFormat(FormatLayers[i])

\* no flag, table in the environment, TSV in the profile, json in the default
\* section: table
C29_Witness ==
    /\ FormatResolved
    /\ ~stdout_tty
    /\ FormatLayers = <<None, Some(S_table), Some(<<"T", "S", "V">>), Some(S_json)>>
    /\ resolved.format = S_table

\* no flag, nothing in the environment: the profile's TSV beats the default's json
C29_WitnessProfile ==
    /\ FormatResolved
    /\ stdout_tty
    /\ FormatLayers = <<None, None, Some(<<"T", "S", "V">>), Some(S_json)>>
    /\ resolved.format = S_tsv

\* an environment value that names no format: auto-detection, not the default
\* section's json
C29_WitnessInvalidEnv ==
    /\ FormatResolved
    /\ stdout_tty
    /\ FormatLayers = <<None, Some(<<"b", "o", "g", "u", "s">>), None, Some(S_json)>>
    /\ resolved.format = S_table

-----------------------------------------------------------------------------
(* Properties of the key a stored credential is looked up under            *)
(* (SpecResolve).                                                          *)

\* resolve_token ran with no credential in the environment, on a profile the
\* store can look up
StoreAsked == (LayeredSend \/ LayeredSearch) /\ ~EnvTokenSet /\ LookupPossible

\* the tokens the stores may hold under the key k
TokensUnder(k) == IF k = "default" THEN {T_file, T_key} ELSE IF k = "work" THEN {T_work} ELSE {}

\* C30: when the store is asked, the credential is the one held under the
\* selected profile's key, "default" with no profile selected: with nothing held
\* under that key the invocation ends with "token is not configured" and makes no
\* request, whatever is held under the other keys, and a credential that was
\* resolved is never one held under another key.
C30_OwnKeyOnly ==
    StoreAsked =>
        /\ ExpectedStored = None =>
              /\ ~Resolved
              /\ result = Failed("token is not configured")
              /\ calls = <<>>
        /\ Resolved =>
              /\ ExpectedStored # None
              /\ resolved.token = Unwrap(ExpectedStored)
              /\ resolved.token \in TokensUnder(Account)
              /\ \A k \in {"default", "work"} \ {Account} :
                    resolved.token \notin TokensUnder(k)

\* profile work selected, nothing stored for it, a credential stored for the
\* default key: no credential
C30_Witness ==
    /\ StoreAsked
    /\ LayeredSend
    /\ SelectedProfile = Some("work")
    /\ ExpectedStore = "file"
    /\ filestore["work"] = None
    /\ filestore["default"] = Some(T_file \o <<"\n">>)
    /\ pc = "done"
    /\ result = Failed("token is not configured")
    /\ calls = <<>>

\* both keys hold a credential: profile work gets its own
C30_WitnessOwn ==
    /\ StoreAsked
    /\ LayeredSend
    /\ SelectedProfile = Some("work")
    /\ ExpectedStore = "file"
    /\ filestore["work"] = Some(T_work)
    /\ filestore["default"] = Some(T_file \o <<"\n">>)
    /\ Resolved
    /\ resolved.token = T_work

\* no profile selected, only work holds a credential: no credential
C30_WitnessDefault ==
    /\ StoreAsked
    /\ LayeredSend
    /\ SelectedProfile = None
    /\ ExpectedStore = "file"
    /\ filestore["work"] = Some(T_work)
    /\ filestore["default"] = None
    /\ result = Failed("token is not configured")

====
